---- MODULE Spec2Model ----
(***************************************************************************)
(* A model of the lexcube tile engine (lexcube_server/src/tile_server.py   *)
(* and lexcube_widget.py): the chunk-caching DataSourceProxy, the Tile     *)
(* window / codec, and the widget-mode request dispatcher of TileServer.   *)
(***************************************************************************)
EXTENDS Integers, Sequences, FiniteSets, TLC

VARIABLES
    data_source,    \* DataSourceProxy.data_source: [kind, chunks, values]
    chunk_cache,    \* DataSourceProxy.chunk_cache: chunk key -> loaded chunk
    backing_reads,  \* history: chunk key -> number of data_source[slices].values reads
    result,         \* history: outcome of the last DataSourceProxy.__getitem__ call
    use_data_source_proxy,  \* TileServer.use_data_source_proxy
    compress_lossless,      \* TileCompressor.compress_lossless
    tile,           \* history: the last tile generated or window compressed
    decoded,        \* history: outcome of the last Tile.decompress call
    next_request_id,        \* TileServer.next_request_id
    next_request_group_id,  \* TileServer.next_request_group_id
    request_progress,       \* TileServer.request_progress: group -> request -> <<done, total>>
    tile_memory_cache,      \* TileMemoryCache.cache: hash key -> blob
    generator_calls,  \* history: hash key -> calls of generate_from_data
    first_stored,     \* history: hash key -> the blob first put in the memory cache
    widget_progress,  \* history: the pairs widget_update_progress got for the last message
    sent,             \* history: the replies to the last message, in order
    message,          \* history: the requests of the last message, as registered
    datasets,         \* TileServer.datasets: dataset id -> Dataset
    generation_cache, \* TileGenerationCache.cache: hash key -> blob
    files,            \* the tile cache directory: block path -> the bytes of the file
    opened,           \* history: the block paths the last request opened
    emitted,          \* history: the tile_data messages the last request emitted
    call,             \* history: the last standalone request and how it ended
    patch_input,      \* the data source handed to patch_dataset
    patch_output,     \* history: what patch_dataset returned for it
    limits,   \* Cube3DWidget.xlim, ylim, zlim: trait -> <<lower, upper>>
    wrap,   \* Cube3DWidget.xwrap, ywrap, zwrap, by the trait they widen
    assignment,  \* history: the last assignment to a limit and how it ended
    cache_memory,   \* TileGenerationCache(save_on_disk = False).cache: key -> bytes
    cache_disk,   \* the files of TileGenerationCache(save_on_disk = True): path -> bytes
    cache_puts,   \* history: what was put last for a tile and a suffix since the last clear
    observation,  \* history: the last cache operation and what either cache answered
    target,   \* which check-then-insert path the workers run: get_chunk or the miss path of handle_tile_request_widget
    workers,   \* worker -> [pc, key, value]: the position of a worker in the path, its key, what it holds
    shared,   \* the dictionary both workers use: key -> [value, by]
    loads,   \* history: key -> how often its value was loaded or generated
    stores,  \* history: key -> how often a value was assigned to it
    identities,   \* the two tile identities whose hash keys are taken
    keyed,  \* TileMemoryCache.cache with the hash key as a string: key -> the identity put last
    lod_input,   \* the tile size and the dimensions max_lod is calculated for
    lod_output,  \* history: the max_lod calculated and the LoD range built from it
    slider   \* Sliders: [status, link_tries_left, timer] and the history of its attempts

proxyVars == <<data_source, chunk_cache, backing_reads, result>>
tileVars == <<use_data_source_proxy, compress_lossless, tile, decoded>>
serverVars == <<next_request_id, next_request_group_id, request_progress, tile_memory_cache>>
widgetVars == <<serverVars, generator_calls, first_stored, widget_progress, sent, message>>
standaloneVars == <<datasets, generation_cache, files, opened, emitted, call>>
patchVars == <<patch_input, patch_output>>
limitVars == <<limits, wrap, assignment>>
cacheVars == <<cache_memory, cache_disk, cache_puts, observation>>
workerVars == <<target, workers, shared, loads, stores>>
keyVars == <<identities, keyed>>
lodVars == <<lod_input, lod_output>>
sliderVars == <<slider>>
extraVars == <<patchVars, limitVars, cacheVars, workerVars, keyVars, lodVars, sliderVars>>
patchRest == <<proxyVars, tileVars, widgetVars, standaloneVars, limitVars, cacheVars, workerVars, keyVars, lodVars, sliderVars>>
limitRest == <<proxyVars, tileVars, widgetVars, standaloneVars, patchVars, cacheVars, workerVars, keyVars, lodVars, sliderVars>>
cacheRest == <<proxyVars, tileVars, widgetVars, standaloneVars, patchVars, limitVars, workerVars, keyVars, lodVars, sliderVars>>
workerRest == <<proxyVars, tileVars, widgetVars, standaloneVars, patchVars, limitVars, cacheVars, keyVars, lodVars, sliderVars>>
keyRest == <<proxyVars, tileVars, widgetVars, standaloneVars, patchVars, limitVars, cacheVars, workerVars, lodVars, sliderVars>>
lodRest == <<proxyVars, tileVars, widgetVars, standaloneVars, patchVars, limitVars, cacheVars, workerVars, keyVars, sliderVars>>
sliderRest == <<proxyVars, tileVars, widgetVars, standaloneVars, patchVars, limitVars, cacheVars, workerVars, keyVars, lodVars>>
vars == <<proxyVars, tileVars, widgetVars, standaloneVars, extraVars>>

(***************************************************************************)
(* Bounds of the model.                                                    *)
(***************************************************************************)
MaxOver == 1       \* how far outside [0, N] a request coordinate may lie
MaxReads == 2      \* the read counter of a chunk saturates here

(***************************************************************************)
(* Generic helpers.                                                        *)
(***************************************************************************)
Min(a, b) == IF a <= b THEN a ELSE b
Max(a, b) == IF a >= b THEN a ELSE b

\* Python's slice(start, stop)
Slice(a, b) == [start |-> a, stop |-> b]
SliceLen(s) == s.stop - s.start
\* the indices a slice with start <= stop selects
SliceRange(s) == s.start .. (s.stop - 1)

\* one component of an indexing tuple: an int or a slice
Idx(i) == [t |-> "int", a |-> i, b |-> i + 1]
Slc(a, b) == [t |-> "slice", a |-> a, b |-> b]

\* float values: a finite number or NaN
Val(v) == [nan |-> FALSE, v |-> v]
NaN == [nan |-> TRUE, v |-> 0]
\* what uninitialised memory of np.ndarray(shape) may hold
GarbageValues == {NaN, Val(0), Val(-1)}

RECURSIVE SumSeq(_)
SumSeq(s) == IF s = <<>> THEN 0 ELSE s[1] + SumSeq(Tail(s))

RECURSIVE Compositions(_)
\* all ways to cut an axis of length n into chunks of positive length
Compositions(n) ==
    IF n = 0 THEN {<<>>}
    ELSE UNION {{<<k>> \o c : c \in Compositions(n - k)} : k \in 1..n}

(***************************************************************************)
(* The data source.                                                        *)
(***************************************************************************)
\* the shapes (Nz, Ny, Nx) of the arrays the proxy is exercised on
ProxyShapes == {<<1, 2, 3>>, <<2, 2, 1>>}

\* DataSourceProxy.__init__: self.shape
Shape == data_source.shape
Nz == Shape[1]
Ny == Shape[2]
Nx == Shape[3]

CellsOf(shape) == (0..(shape[1] - 1)) \X (0..(shape[2] - 1)) \X (0..(shape[3] - 1))

\* an array whose every cell holds a different value (a multiple of 4)
IdentityArray(shape) ==
    [c \in CellsOf(shape) |-> Val(4 * (1 + c[3] + shape[3] * (c[2] + shape[2] * c[1])))]

\* every native chunking of an array of the given shape
ChunkLayouts(shape) ==
    Compositions(shape[1]) \X Compositions(shape[2]) \X Compositions(shape[3])

\* the chunk keys (cz, cy, cx) of a chunking
ChunkKeys(chunks) ==
    IF chunks = <<>> THEN {}
    ELSE (0..(Len(chunks[1]) - 1)) \X (0..(Len(chunks[2]) - 1)) \X (0..(Len(chunks[3]) - 1))

\* DataSourceProxy.__init__: cache_chunks
cache_chunks == data_source.kind = "xarray" /\ data_source.chunks # <<>>

\* np.append([0], np.cumsum(chunks))
ChunkIndices(c) == [i \in 1..(Len(c) + 1) |-> SumSeq(SubSeq(c, 1, i - 1))]
z_chunk_indices == ChunkIndices(data_source.chunks[1])
y_chunk_indices == ChunkIndices(data_source.chunks[2])
x_chunk_indices == ChunkIndices(data_source.chunks[3])

\* np.searchsorted(a, v, side="right"): the number of entries <= v
SearchSortedRight(a, v) == Cardinality({i \in 1..Len(a) : a[i] <= v})

\* range(a, b + 1) as a sequence
RangeSeq(a, b) == [i \in 1..Max(b - a + 1, 0) |-> a + i - 1]

\* [(z, y, x) for z in zs for y in ys for x in xs]
Product3(zs, ys, xs) ==
    [k \in 1..(Len(zs) * Len(ys) * Len(xs)) |->
        << zs[1 + ((k - 1) \div (Len(ys) * Len(xs)))],
           ys[1 + (((k - 1) \div Len(xs)) % Len(ys))],
           xs[1 + ((k - 1) % Len(xs))] >>]

ChunkStart(indices, s) == SearchSortedRight(indices, s.start) - 1
ChunkEnd(indices, s) == SearchSortedRight(indices, s.stop - 1) - 1

\* DataSourceProxy.find_affected_chunks
find_affected_chunks(x, y, z) ==
    Product3(RangeSeq(ChunkStart(z_chunk_indices, z), ChunkEnd(z_chunk_indices, z)),
             RangeSeq(ChunkStart(y_chunk_indices, y), ChunkEnd(y_chunk_indices, y)),
             RangeSeq(ChunkStart(x_chunk_indices, x), ChunkEnd(x_chunk_indices, x)))

\* DataSourceProxy.get_chunk_slices (chunk indices are 0-based)
get_chunk_slices(chunk_ix, chunk_iy, chunk_iz) ==
    << Slice(z_chunk_indices[chunk_iz + 1], z_chunk_indices[chunk_iz + 2]),
       Slice(y_chunk_indices[chunk_iy + 1], y_chunk_indices[chunk_iy + 2]),
       Slice(x_chunk_indices[chunk_ix + 1], x_chunk_indices[chunk_ix + 2]) >>

SourceLower(request, chunk) == Max(request.start - chunk.start, 0)
\* the source end without the cut at the end of the chunk
Mut_SourceUpper(request, chunk) == request.stop - chunk.start
SourceUpper(request, chunk) == Min(request.stop - chunk.start, chunk.stop - chunk.start)
\* the target offset without the part of the chunk the request skips
Mut_TargetLower(request, chunk) == chunk.start - request.start
TargetLower(request, chunk) == chunk.start - request.start + SourceLower(request, chunk)
TargetUpper(request, chunk) ==
    TargetLower(request, chunk) + SourceUpper(request, chunk) - SourceLower(request, chunk)

\* DataSourceProxy.get_chunk_slices_for_request
get_chunk_slices_for_request(chunk_ix, chunk_iy, chunk_iz, xr, yr, zr) ==
    LET cs == get_chunk_slices(chunk_ix, chunk_iy, chunk_iz)
    IN [source |-> << Slice(SourceLower(zr, cs[1]), SourceUpper(zr, cs[1])),
                      Slice(SourceLower(yr, cs[2]), SourceUpper(yr, cs[2])),
                      Slice(SourceLower(xr, cs[3]), SourceUpper(xr, cs[3])) >>,
        target |-> << Slice(TargetLower(zr, cs[1]), TargetUpper(zr, cs[1])),
                      Slice(TargetLower(yr, cs[2]), TargetUpper(yr, cs[2])),
                      Slice(TargetLower(xr, cs[3]), TargetUpper(xr, cs[3])) >>]

\* self.data_source[slices].values: the cells of one chunk, in chunk coordinates
ReadChunk(iz, iy, ix) ==
    LET cs == get_chunk_slices(ix, iy, iz)
    IN [c \in (0..(SliceLen(cs[1]) - 1)) \X (0..(SliceLen(cs[2]) - 1))
               \X (0..(SliceLen(cs[3]) - 1)) |->
           data_source.values[<<cs[1].start + c[1], cs[2].start + c[2], cs[3].start + c[3]>>]]

\* get_chunk without the membership test: every call reads the chunk
Mut_get_chunk(st, iz, iy, ix) ==
    [cache |-> (<<iz, iy, ix>> :> ReadChunk(iz, iy, ix)) @@ st.cache,
     reads |-> [st.reads EXCEPT ![<<iz, iy, ix>>] = Min(@ + 1, MaxReads)],
     chunk |-> ReadChunk(iz, iy, ix)]

\* DataSourceProxy.get_chunk: state [cache, reads] -> [cache, reads, chunk]
get_chunk(st, iz, iy, ix) ==
    LET chunk_key == <<iz, iy, ix>>
    IN IF chunk_key \notin DOMAIN st.cache
       THEN [cache |-> (chunk_key :> ReadChunk(iz, iy, ix)) @@ st.cache,
             reads |-> [st.reads EXCEPT ![chunk_key] = Min(@ + 1, MaxReads)],
             chunk |-> ReadChunk(iz, iy, ix)]
       ELSE [cache |-> st.cache, reads |-> st.reads, chunk |-> st.cache[chunk_key]]

\* DataSourceProxy.validate_slice
validate_slice(s, dimension) ==
    Slice(Max(s.a, 0), Min(s.b, Shape[dimension]))

Box(slices) == SliceRange(slices[1]) \X SliceRange(slices[2]) \X SliceRange(slices[3])

\* np.copyto(output[target], c[source])
CopyTo(output, writes, chunk, sl) ==
    LET cells == Box(sl.target) \cap DOMAIN output
        from(t) == << sl.source[1].start + (t[1] - sl.target[1].start),
                      sl.source[2].start + (t[2] - sl.target[2].start),
                      sl.source[3].start + (t[3] - sl.target[3].start) >>
    IN [output |-> [t \in DOMAIN output |->
                       IF t \in cells /\ from(t) \in DOMAIN chunk
                       THEN chunk[from(t)] ELSE output[t]],
        writes |-> [t \in DOMAIN writes |->
                       IF t \in cells THEN writes[t] + 1 ELSE writes[t]]]

RECURSIVE CopyChunks(_, _, _, _, _)
\* the loop of __getitem__ over the affected chunks
CopyChunks(st, chunks, xr, yr, zr) ==
    IF chunks = <<>> THEN st
    ELSE LET key == Head(chunks)
             got == get_chunk(st, key[1], key[2], key[3])
             sl == get_chunk_slices_for_request(key[3], key[2], key[1], xr, yr, zr)
             copied == CopyTo(st.output, st.writes, got.chunk, sl)
         IN CopyChunks([cache |-> got.cache, reads |-> got.reads,
                        output |-> copied.output, writes |-> copied.writes],
                       Tail(chunks), xr, yr, zr)

\* the values of a 3-d array of the given extents, in row-major order
Flatten(array, nz, ny, nx) ==
    [k \in 1..(nz * ny * nx) |->
        array[<< (k - 1) \div (ny * nx), ((k - 1) \div nx) % ny, (k - 1) % nx >>]]

\* np.squeeze: every axis of length 1 is dropped
Squeeze(shape) == SelectSeq(shape, LAMBDA d : d # 1)

\* the state of the proxy: its chunk cache and the reads made so far
Proxy == [cache |-> chunk_cache, reads |-> backing_reads]

\* the outcome of a call that raised
Raised(px) == [status |-> "error", shape |-> <<>>, values |-> <<>>, writes |-> <<>>,
               cache |-> px.cache, reads |-> px.reads]

\* return np.squeeze(output)
ProxyReturn(done, nz, ny, nx) ==
    [status |-> "ok", shape |-> Squeeze(<<nz, ny, nx>>),
     values |-> Flatten(done.output, nz, ny, nx),
     writes |-> Flatten(done.writes, nz, ny, nx),
     cache |-> done.cache, reads |-> done.reads]

ProxyFill(px, zr, yr, xr, garbage) ==
    IF SliceLen(zr) < 0 \/ SliceLen(yr) < 0 \/ SliceLen(xr) < 0
    THEN Raised(px)  \* np.ndarray: ValueError, negative dimensions are not allowed
    ELSE LET dom == (0..(SliceLen(zr) - 1)) \X (0..(SliceLen(yr) - 1))
                        \X (0..(SliceLen(xr) - 1))
         IN ProxyReturn(CopyChunks([cache |-> px.cache, reads |-> px.reads,
                                    output |-> [t \in dom |-> garbage],
                                    writes |-> [t \in dom |-> 0]],
                                   find_affected_chunks(xr, yr, zr), xr, yr, zr),
                        SliceLen(zr), SliceLen(yr), SliceLen(xr))

\* the chunked path of DataSourceProxy.__getitem__; garbage is what the
\* uninitialised output array holds before the copies
ProxyGetItem(px, arg, garbage) ==
    ProxyFill(px, validate_slice(arg[1], 1), validate_slice(arg[2], 2),
              validate_slice(arg[3], 3), garbage)

(***************************************************************************)
(* numpy / xarray basic indexing, the path of an unchunked source.         *)
(***************************************************************************)
\* a negative index counts from the end
NumpyIndex(i, n) == IF i < 0 THEN i + n ELSE i
NumpyIndexOk(i, n) == NumpyIndex(i, n) \in 0..(n - 1)
NumpyBound(a, n) == IF a < 0 THEN Max(a + n, 0) ELSE Min(a, n)
\* the half-open range an indexing component selects on an axis of length n
NumpySlice(s, n) ==
    IF s.t = "int" THEN Slice(NumpyIndex(s.a, n), NumpyIndex(s.a, n) + 1)
    ELSE Slice(NumpyBound(s.a, n), Max(NumpyBound(s.b, n), NumpyBound(s.a, n)))

NumpyRead(px, arg, zr, yr, xr) ==
    LET kept == SelectSeq(<<1, 2, 3>>, LAMBDA d : arg[d].t = "slice")
        lens == <<SliceLen(zr), SliceLen(yr), SliceLen(xr)>>
    IN [status |-> "ok",
        shape |-> [i \in 1..Len(kept) |-> lens[kept[i]]],
        values |-> Flatten([t \in (0..(lens[1] - 1)) \X (0..(lens[2] - 1))
                                    \X (0..(lens[3] - 1)) |->
                              data_source.values[<<zr.start + t[1], yr.start + t[2],
                                                   xr.start + t[3]>>]],
                           lens[1], lens[2], lens[3]),
        writes |-> <<>>,
        cache |-> px.cache, reads |-> px.reads]

\* data_source.__getitem__(arg): an int drops its axis, a slice keeps it
NumpyGetItem(px, arg) ==
    IF \E d \in 1..3 : arg[d].t = "int" /\ ~NumpyIndexOk(arg[d].a, Shape[d])
    THEN Raised(px)  \* IndexError
    ELSE NumpyRead(px, arg, NumpySlice(arg[1], Nz), NumpySlice(arg[2], Ny),
                   NumpySlice(arg[3], Nx))

\* DataSourceProxy.__getitem__
getitem(px, arg, garbage) ==
    IF ~cache_chunks THEN NumpyGetItem(px, arg) ELSE ProxyGetItem(px, arg, garbage)

\* some cell of the output array was never written
HasUnwritten(r) == r.status = "ok" /\ \E k \in DOMAIN r.writes : r.writes[k] = 0

(***************************************************************************)
(* Requests.                                                               *)
(***************************************************************************)
\* the indexing components on one axis: an index in lo..hi-1 or a range
\* [a, b) with lo <= a < b <= hi
Components(lo, hi) ==
    {Idx(i) : i \in lo..(hi - 1)}
        \cup {Slc(p[1], p[2]) : p \in {q \in (lo..hi) \X (lo..hi) : q[1] < q[2]}}

\* requests that lie fully inside the array, every range non-empty
InsideRequests == Components(0, Nz) \X Components(0, Ny) \X Components(0, Nx)
\* requests whose coordinates may lie outside the array
AnyRequests ==
    Components(0 - MaxOver, Nz + MaxOver + 1)
        \X Components(0 - MaxOver, Ny + MaxOver + 1)
        \X Components(0 - MaxOver, Nx + MaxOver + 1)

NoResult == [status |-> "none", arg |-> <<>>, shape |-> <<>>, values |-> <<>>,
             writes |-> <<>>, fetched |-> {}]
NoTile == [status |-> "none", t |-> <<>>, arg |-> <<>>, window |-> <<>>, added |-> 0,
           data |-> <<>>]
NoDecoded == [status |-> "none", values |-> <<>>, max_error |-> 0]

NoMessage == [status |-> "none", requests |-> <<>>]

\* TileServer.__init__ and startup_widget: nothing requested yet
WidgetIdle ==
    /\ next_request_id = 0
    /\ next_request_group_id = 0
    /\ request_progress = <<>>
    /\ tile_memory_cache = <<>>
    /\ generator_calls = <<>>
    /\ first_stored = <<>>
    /\ widget_progress = <<>>
    /\ sent = <<>>
    /\ message = NoMessage

NoCall == [status |-> "none", request |-> <<>>]

\* TileServer.__init__: no dataset opened, no block file, nothing requested
StandaloneIdle ==
    /\ datasets = <<>>
    /\ generation_cache = <<>>
    /\ files = <<>>
    /\ opened = <<>>
    /\ emitted = <<>>
    /\ call = NoCall

NoPatch == [status |-> "none"]
\* nothing handed to patch_dataset
PatchIdle ==
    /\ patch_input = NoPatch
    /\ patch_output = NoPatch

NoAssignment == [status |-> "none"]
\* the limits of a widget nobody has assigned to: (-1, -1)
LimitIdle ==
    /\ limits = [trait \in {"xlim", "ylim", "zlim"} |-> <<0 - 1, 0 - 1>>]
    /\ wrap = [trait \in {"xlim", "ylim", "zlim"} |-> FALSE]
    /\ assignment = NoAssignment

NoObservation == [status |-> "none"]
\* two generation caches nobody has used
CacheIdle ==
    /\ cache_memory = <<>>
    /\ cache_disk = <<>>
    /\ cache_puts = <<>>
    /\ observation = NoObservation

\* no worker runs
WorkerIdle ==
    /\ target = "none"
    /\ workers = <<>>
    /\ shared = <<>>
    /\ loads = <<>>
    /\ stores = <<>>

\* no hash key taken
KeyIdle ==
    /\ identities = <<>>
    /\ keyed = <<>>

NoLod == [status |-> "none"]
\* no max_lod calculated
LodIdle ==
    /\ lod_input = NoLod
    /\ lod_output = NoLod

NoSlider == [status |-> "none"]
\* no Sliders object
SliderIdle ==
    /\ slider = NoSlider

\* the parts of the program outside the tile engine and the servers, at rest
ExtraIdle ==
    /\ PatchIdle
    /\ LimitIdle
    /\ CacheIdle
    /\ WorkerIdle
    /\ KeyIdle
    /\ LodIdle
    /\ SliderIdle

\* the tile engine at rest: no tile generated, nothing decoded
TileIdle ==
    /\ use_data_source_proxy = TRUE
    /\ compress_lossless = TRUE
    /\ tile = NoTile
    /\ decoded = NoDecoded

(***************************************************************************)
(* The proxy as a state machine.                                           *)
(***************************************************************************)
\* an np.ndarray, an xr.DataArray without chunks, or an xr.DataArray with any
\* native chunking
SourcesOf(shape, values) ==
    {[kind |-> "ndarray", shape |-> shape, chunks |-> <<>>, values |-> values],
     [kind |-> "xarray", shape |-> shape, chunks |-> <<>>, values |-> values]}
    \cup {[kind |-> "xarray", shape |-> shape, chunks |-> l, values |-> values] :
              l \in ChunkLayouts(shape)}

ProxySources == UNION {SourcesOf(shape, IdentityArray(shape)) : shape \in ProxyShapes}

\* DataSourceProxy.__init__
InitProxyOver(sources) ==
    /\ data_source \in sources
    /\ chunk_cache = <<>>
    /\ backing_reads = [k \in ChunkKeys(data_source.chunks) |-> 0]
    /\ result = NoResult
    /\ TileIdle
    /\ WidgetIdle
    /\ StandaloneIdle
    /\ ExtraIdle

InitProxy == InitProxyOver(ProxySources)

Returned(arg, r) ==
    /\ chunk_cache' = r.cache
    /\ backing_reads' = r.reads
    /\ result' = [status |-> r.status, arg |-> arg, shape |-> r.shape,
                  values |-> r.values, writes |-> r.writes,
                  fetched |-> DOMAIN r.cache \ DOMAIN chunk_cache]
    /\ UNCHANGED <<data_source, tileVars, widgetVars, standaloneVars, extraVars>>

\* one call proxy[arg]; a cell that is never written shows what the
\* uninitialised output held
GetItem(arg) ==
    /\ result.status = "none"
    /\ \E r \in {getitem(Proxy, arg, NaN)} :
          IF HasUnwritten(r)
          THEN \E garbage \in GarbageValues :
                  \E q \in {getitem(Proxy, arg, garbage)} : Returned(arg, q)
          ELSE Returned(arg, r)

\* the caller takes the returned array
ProxyDone ==
    /\ result.status # "none"
    /\ result' = NoResult
    /\ UNCHANGED <<data_source, chunk_cache, backing_reads, tileVars, widgetVars, standaloneVars, extraVars>>

ProxyRead == \E arg \in InsideRequests : GetItem(arg)

NextProxy == ProxyRead \/ ProxyDone

SpecProxy == InitProxy /\ [][NextProxy]_vars

\* a fresh chunked proxy asked for a window that may leave the array
InitProxyClamp == InitProxyOver({s \in ProxySources : s.chunks # <<>>})

ClampRead == chunk_cache = <<>> /\ \E arg \in AnyRequests : GetItem(arg)

NextProxyClamp == ClampRead \/ ProxyDone

SpecProxyClamp == InitProxyClamp /\ [][NextProxyClamp]_vars

(***************************************************************************)
(* Properties of DataSourceProxy.                                          *)
(***************************************************************************)
\* the half-open range of array indices a component names
Named(c) == Slice(c.a, c.b)
AllRanges(arg) == \A d \in 1..3 : arg[d].t = "slice"
Inside(arg) == \A d \in 1..3 : 0 <= arg[d].a /\ arg[d].a < arg[d].b /\ arg[d].b <= Shape[d]

\* array[rz, ry, rx], cell for cell in row-major order
ArrayValues(arg) ==
    LET nz == arg[1].b - arg[1].a
        ny == arg[2].b - arg[2].a
        nx == arg[3].b - arg[3].a
    IN [k \in 1..(nz * ny * nx) |->
           data_source.values[<< arg[1].a + ((k - 1) \div (ny * nx)),
                                 arg[2].a + (((k - 1) \div nx) % ny),
                                 arg[3].a + ((k - 1) % nx) >>]]

\* the native chunks whose cells meet the window of a request
ChunkMeets(indices, i, c) == indices[i + 1] < c.b /\ c.a < indices[i + 2]
IntersectingChunks(arg) ==
    {k \in ChunkKeys(data_source.chunks) :
        /\ ChunkMeets(z_chunk_indices, k[1], arg[1])
        /\ ChunkMeets(y_chunk_indices, k[2], arg[2])
        /\ ChunkMeets(x_chunk_indices, k[3], arg[3])}

\* C4: for every window of non-empty ranges fully inside the array the
\* values proxy[rz, ry, rx] returns are those of array[rz, ry, rx], cell for
\* cell, for chunked and unchunked sources and whatever the chunk cache holds.
C4_ProxyEqualsArray ==
    (result.status # "none" /\ Inside(result.arg))
        => (result.status = "ok" /\ result.values = ArrayValues(result.arg))

\* a window of ranges that spans unequal chunks, answered from the cache
C4_Witness ==
    /\ data_source.chunks = <<(<<1>>), <<1, 1>>, <<1, 2>>>>
    /\ result.status = "ok" /\ AllRanges(result.arg)
    /\ result.arg[2] = Slc(0, 2) /\ result.arg[3] = Slc(0, 3)
    /\ result.fetched = {}
    /\ result.values = ArrayValues(result.arg)

\* C5: each native chunk is read from the backing array at most once; a
\* chunk is cached exactly when it was read once and holds what was read; a
\* request leaves every chunk that meets its window cached and fetches no other.
C5_ChunkReadOnce ==
    cache_chunks =>
        /\ \A k \in DOMAIN backing_reads :
              /\ backing_reads[k] <= 1
              /\ (backing_reads[k] = 1) <=> (k \in DOMAIN chunk_cache)
        /\ \A k \in DOMAIN chunk_cache : chunk_cache[k] = ReadChunk(k[1], k[2], k[3])
        /\ (result.status = "ok" /\ Inside(result.arg)) =>
              /\ IntersectingChunks(result.arg) \subseteq DOMAIN chunk_cache
              /\ result.fetched \subseteq IntersectingChunks(result.arg)

\* a request over several chunks, all cached already: nothing is fetched
C5_Witness ==
    /\ cache_chunks /\ result.status = "ok"
    /\ Cardinality(IntersectingChunks(result.arg)) >= 2
    /\ result.fetched = {}
    /\ \E k \in DOMAIN backing_reads : backing_reads[k] = 0

\* C6: a chunked proxy answers a request that lies partly or wholly outside
\* the array by clamping it; the request never ends in an error.
C6_ClampedNeverError ==
    (cache_chunks /\ result.status # "none") => result.status = "ok"

ExactlyOneIndex(arg) == Cardinality({d \in 1..3 : arg[d].t = "int"}) = 1
FreeLengths(arg) ==
    LET free == SelectSeq(<<1, 2, 3>>, LAMBDA d : arg[d].t = "slice")
    IN [i \in 1..Len(free) |-> arg[free[i]].b - arg[free[i]].a]

\* C7: a request that fixes exactly one axis to an index and gives non-empty
\* ranges on the other two returns a rank-2 array of shape (length of the
\* first free range, length of the second), chunked or not.
C7_OneIndexGivesRank2 ==
    (result.status # "none" /\ Inside(result.arg) /\ ExactlyOneIndex(result.arg))
        => (result.status = "ok" /\ result.shape = FreeLengths(result.arg))

(***************************************************************************)
(* Tile: the source window of a tile and its level of detail.              *)
(***************************************************************************)
TILE_SIZE == 2       \* TileServer.TILE_SIZE, scaled down from 256
MaxLod == 1          \* tiles are requested at lod 0..MaxLod
MaxTileCoord == 2    \* tile coordinates x, y are requested in 0..MaxTileCoord
MaxIndexValue == 3   \* slice indices are requested in 0..MaxIndexValue
z_offset == 0        \* generate_from_data, default argument

Dimension == {"Z", "Y", "X"}

\* Tile.__init__: the identity of a tile
Tiles == [index_dimension : Dimension, index_value : 0..MaxIndexValue,
          lod : 0..MaxLod, x : 0..MaxTileCoord, y : 0..MaxTileCoord]

RECURSIVE Pow2(_)
Pow2(n) == IF n = 0 THEN 1 ELSE 2 * Pow2(n - 1)

lod_factor(t) == Pow2(t.lod)
lod_tile_size(t) == lod_factor(t) * TILE_SIZE
\* the tile column always selects y
Mut_lat_tile_index(t) == t.y
lat_tile_index(t) == IF t.index_dimension = "X" THEN t.x ELSE t.y

z_slice(t) == Slc(lod_factor(t) * (t.y * TILE_SIZE - z_offset),
                  lod_factor(t) * ((t.y + 1) * TILE_SIZE - z_offset))
y_slice(t) == Slc(lod_tile_size(t) * lat_tile_index(t),
                  lod_tile_size(t) * (lat_tile_index(t) + 1))
x_slice(t) == Slc(lod_tile_size(t) * t.x, lod_tile_size(t) * (t.x + 1))

\* generate_from_data: the argument of source_data[...] for a 3-d source
TileWindow(t) ==
    CASE t.index_dimension = "Z" -> <<Idx(t.index_value - z_offset), y_slice(t), x_slice(t)>>
      [] t.index_dimension = "Y" -> <<z_slice(t), Idx(t.index_value), x_slice(t)>>
      [] t.index_dimension = "X" -> <<z_slice(t), y_slice(t), Idx(t.index_value)>>

\* source_data[...]: the proxy when chunk caching is on, else the array itself
SourceGetItem(px, arg, garbage) ==
    IF use_data_source_proxy THEN getitem(px, arg, garbage) ELSE NumpyGetItem(px, arg)

\* a 2-d array [shape, values]: the value in row i, column j
At(a, i, j) == a.values[i * a.shape[2] + j + 1]
Array2(h, w, f(_, _)) ==
    [shape |-> <<h, w>>, values |-> [k \in 1..(h * w) |-> f((k - 1) \div w, (k - 1) % w)]]
Failed == [shape |-> <<>>, values |-> <<>>, error |-> TRUE]
Ok(a) == [shape |-> a.shape, values |-> a.values, error |-> FALSE]

\* cvRound(n / d): round half to even
RoundHalfEven(n, d) ==
    LET q == n \div d
        r == n % d
    IN IF 2 * r < d THEN q
       ELSE IF 2 * r > d THEN q + 1
       ELSE IF q % 2 = 0 THEN q ELSE q + 1

\* the mean of four pixels; NaN if any is NaN
Mean4(a, b, c, d) ==
    IF a.nan \/ b.nan \/ c.nan \/ d.nan THEN NaN ELSE Val((a.v + b.v + c.v + d.v) \div 4)

\* cv2.resize(v, None, fx = 1/S, fy = 1/S, INTER_LINEAR): an output pixel is
\* the bilinear sample at S * (i + 1/2) - 1/2, that is the mean of the two
\* source pixels next to it on each axis, the second clamped to the border
cv2_resize(v, S) ==
    IF Len(v.shape) # 2 THEN Failed   \* a 1-d array is a single column
    ELSE IF v.shape[1] = 0 \/ v.shape[2] = 0 THEN Failed
    ELSE IF RoundHalfEven(v.shape[1], S) = 0 \/ RoundHalfEven(v.shape[2], S) = 0 THEN Failed
    ELSE LET lo(i) == S * i + (S \div 2) - 1
             r0(i) == Min(lo(i), v.shape[1] - 1)
             r1(i) == Min(lo(i) + 1, v.shape[1] - 1)
             c0(j) == Min(lo(j), v.shape[2] - 1)
             c1(j) == Min(lo(j) + 1, v.shape[2] - 1)
             px(i, j) == Mean4(At(v, r0(i), c0(j)), At(v, r0(i), c1(j)),
                               At(v, r1(i), c0(j)), At(v, r1(i), c1(j)))
         IN Ok(Array2(RoundHalfEven(v.shape[1], S), RoundHalfEven(v.shape[2], S), px))

CeilDiv(n, d) == (n + d - 1) \div d

\* sample_data_array_2d: data[::S, ::S], stacked row by row
sample_data_array_2d(data, sample_factor) ==
    IF data.shape[1] = 0 THEN Failed   \* np.stack: need at least one array
    ELSE LET px(i, j) == At(data, sample_factor * i, sample_factor * j)
         IN Ok(Array2(CeilDiv(data.shape[1], sample_factor),
                      CeilDiv(data.shape[2], sample_factor), px))

\* len(data_values.chunks[k]): the chunks a window meets on one axis (an empty
\* window still has one, empty, chunk)
WindowChunks(indices, c, n) ==
    LET s == NumpySlice(c, n)
    IN Max(1, Cardinality({i \in 1..(Len(indices) - 1) :
                              indices[i] < s.stop /\ s.start < indices[i + 1]}))

\* generate_from_data: data_values is a chunked xr.DataArray
chunked == ~use_data_source_proxy /\ data_source.kind = "xarray" /\ data_source.chunks # <<>>

\* generate_from_data: sample_instead_of_resize
sample_instead_of_resize(t, data_values) ==
    LET arg == TileWindow(t)
        free == SelectSeq(<<1, 2, 3>>, LAMBDA d : arg[d].t = "slice")
        c(k) == WindowChunks(ChunkIndices(data_source.chunks[free[k]]), arg[free[k]],
                             Shape[free[k]])
    IN chunked /\ (c(1) * lod_factor(t) > data_values.shape[1]
                   \/ c(2) * lod_factor(t) > data_values.shape[2])

\* generate_from_data: the reduction of the window at lod > 0
LodReduce(t, data_values) ==
    IF lod_factor(t) > 1
    THEN IF sample_instead_of_resize(t, data_values)
         THEN sample_data_array_2d(data_values, lod_factor(t))
         ELSE cv2_resize(data_values, lod_factor(t))
    ELSE Ok(data_values)

(***************************************************************************)
(* The tile codec. A blob is a sequence of fields; a field is w bytes wide *)
(* and holds the number v / d, or NaN.                                     *)
(***************************************************************************)
NAN_TILE_MAGIC_NUMBER == -1
LOSSLESS_TILE_MAGIC_NUMBER == -2
TILE_VERSION == 2
TILE_FORMAT_MAGIC_BYTES == 1668834668   \* b"lexc" read as a little-endian word
BloscHeaderBytes == 16    \* the header of a Blosc frame
ZfpTolerance == 1         \* the absolute error zfp may add to a value

Field(w, x, d) == [w |-> w, nan |-> x.nan, v |-> x.v, d |-> d]
\* struct.pack("<I", n), struct.pack("<d", x), one float32
U32(n) == Field(4, Val(n), 1)
F64(x) == Field(8, x, 1)
F32(x) == Field(4, x, 1)

RECURSIVE ByteLen(_)
\* len(data)
ByteLen(data) == IF data = <<>> THEN 0 ELSE Head(data).w + ByteLen(Tail(data))

RECURSIVE Cut(_, _, _, _)
\* the fields of data, the first of which starts at byte at, that lie in the
\* bytes a .. b - 1
Cut(data, at, a, b) ==
    IF data = <<>> THEN <<>>
    ELSE (IF a <= at /\ at + Head(data).w <= b THEN <<Head(data)>> ELSE <<>>)
             \o Cut(Tail(data), at + Head(data).w, a, b)
\* data[a:b]
BytesOf(data, a, b) == Cut(data, 0, a, b)
\* struct.unpack(...)[0] of the w bytes in fields, or NaN when they hold no
\* such field
Unpack1(fields, w) ==
    IF Len(fields) = 1 /\ fields[1].w = w THEN fields[1] ELSE Field(w, NaN, 1)
Unpack(data, a, b) == Unpack1(BytesOf(data, a, b), b - a)

\* the header with the error packed as a float32
Mut_get_tile_metadata_bytes(resample_resolution, nan_mask_length, max_error_or_magic_number) ==
    << U32(TILE_FORMAT_MAGIC_BYTES), U32(TILE_VERSION), U32(resample_resolution),
       U32(nan_mask_length), F32(Val(max_error_or_magic_number)) >>
\* Tile.get_tile_metadata_bytes
get_tile_metadata_bytes(resample_resolution, nan_mask_length, max_error_or_magic_number) ==
    << U32(TILE_FORMAT_MAGIC_BYTES), U32(TILE_VERSION), U32(resample_resolution),
       U32(nan_mask_length), F64(Val(max_error_or_magic_number)) >>

TileCells == 1..(TILE_SIZE * TILE_SIZE)
RowOf(k) == (k - 1) \div TILE_SIZE
ColOf(k) == (k - 1) % TILE_SIZE
\* the pixel k of the tile lies inside the window
InWindow(source_values, k) ==
    RowOf(k) < source_values.shape[1] /\ ColOf(k) < source_values.shape[2]

\* np.full((T, T), nan); tile_data[:h, :w] = source_values
tile_data_of(source_values) ==
    [k \in TileCells |->
        IF InWindow(source_values, k) THEN At(source_values, RowOf(k), ColOf(k)) ELSE NaN]
\* nan_mask: 0 where tile_data holds a value, NaN where it is NaN
nan_mask_of(tile_data) == [k \in TileCells |-> IF tile_data[k].nan THEN NaN ELSE Val(0)]
\* np.nan_to_num
nan_to_num(tile_data) == [k \in TileCells |-> IF tile_data[k].nan THEN Val(0) ELSE tile_data[k]]

Abs(n) == IF n < 0 THEN 0 - n ELSE n
Finite(source_values) == {k \in DOMAIN source_values.values : ~source_values.values[k].nan}
RECURSIVE SumOver(_, _)
SumOver(f, S) == IF S = {} THEN 0 ELSE LET k == CHOOSE k \in S : TRUE
                                        IN f[k] + SumOver(f, S \ {k})
\* np.nanmin, np.nanmax, np.nanmean, np.nanvar packed as four doubles
statistical_data_bytes(source_values) ==
    LET fin == Finite(source_values)
        x == [k \in fin |-> source_values.values[k].v]
        n == Cardinality(fin)
        sum == SumOver(x, fin)
        squares == SumOver([k \in fin |-> x[k] * x[k]], fin)
    IN << F64(Val(CHOOSE m \in {x[k] : k \in fin} : \A k \in fin : m <= x[k])),
          F64(Val(CHOOSE m \in {x[k] : k \in fin} : \A k \in fin : m >= x[k])),
          Field(8, Val(sum), n),
          Field(8, Val(n * squares - sum * sum), n * n) >>

\* numcodecs Blosc: a frame header and the bytes of the doubles, unchanged
BloscEncode(tile_data) ==
    <<Field(BloscHeaderBytes, Val(8 * Len(tile_data)), 1)>> \o [k \in DOMAIN tile_data |-> F64(tile_data[k])]
BloscDecode(data) ==
    IF data # <<>> /\ data[1].w = BloscHeaderBytes /\ data[1].v = 8 * (Len(data) - 1)
    THEN [k \in 1..(Len(data) - 1) |-> [nan |-> data[k + 1].nan, v |-> data[k + 1].v]]
    ELSE <<>>
\* numcodecs LZ4: the length of the source and the bytes of the float32 mask
LZ4Encode(nan_mask) ==
    <<U32(4 * Len(nan_mask))>> \o [k \in DOMAIN nan_mask |-> F32(nan_mask[k])]
LZ4Decode(data) ==
    IF data # <<>> /\ data[1].w = 4 /\ data[1].v = 4 * (Len(data) - 1)
    THEN [k \in 1..(Len(data) - 1) |-> [nan |-> data[k + 1].nan, v |-> data[k + 1].v]]
    ELSE <<>>
\* zfp, fixed accuracy: the stream decodes to the values, each off by an
\* error within the tolerance; errors[k] is the error of pixel k: none, or
\* the largest one of either sign
ZfpErrors ==
    {[k \in TileCells |-> IF (RowOf(k) + ColOf(k)) % 2 = 0 THEN e[1] ELSE e[2]] :
        e \in {0 - ZfpTolerance, 0, ZfpTolerance} \X {0 - ZfpTolerance, 0, ZfpTolerance}}
ZfpEncode(tile_data, errors) ==
    <<Field(8, Val(Len(tile_data)), 1)>>
        \o [k \in DOMAIN tile_data |-> F64(Val(tile_data[k].v + errors[k]))]
ZfpDecode(data) ==
    IF data # <<>> /\ data[1].w = 8 /\ data[1].v = Len(data) - 1
    THEN [k \in 1..(Len(data) - 1) |-> [nan |-> data[k + 1].nan, v |-> data[k + 1].v]]
    ELSE <<>>

\* TileCompressor.compress_tile_data / decompress_tile_data / nan mask
compress_tile_data(lossless, tile_data, errors) ==
    IF lossless THEN BloscEncode(tile_data) ELSE ZfpEncode(tile_data, errors)
decompress_tile_data(data, use_lossless_override) ==
    IF use_lossless_override THEN BloscDecode(data) ELSE ZfpDecode(data)
compress_nan_mask(nan_mask) == LZ4Encode(nan_mask)
decompress_nan_mask(data) == LZ4Decode(data)

\* the outcome of compress_data / generate_from_data: the blob, or an exception
Blob(data) == [status |-> "ok", data |-> data]
Raise == [status |-> "error", data |-> <<>>]

\* the largest signed difference instead of the largest absolute one
Mut_MaxErrorOf(source_values, decompressed_tile_data) ==
    LET errs == {0} \cup {decompressed_tile_data[k].v - At(source_values, RowOf(k), ColOf(k)).v :
                    k \in {c \in TileCells : InWindow(source_values, c)
                                /\ ~At(source_values, RowOf(c), ColOf(c)).nan}}
    IN CHOOSE m \in errs : \A e \in errs : e <= m
\* np.nanmax(np.abs(decompressed[:h, :w] - source_values), initial = 0)
MaxErrorOf(source_values, decompressed_tile_data) ==
    LET errs == {0} \cup {Abs(decompressed_tile_data[k].v - At(source_values, RowOf(k), ColOf(k)).v) :
                    k \in {c \in TileCells : InWindow(source_values, c)
                                /\ ~At(source_values, RowOf(c), ColOf(c)).nan}}
    IN CHOOSE m \in errs : \A e \in errs : e <= m

\* the lossless branch with the NaN pixels zeroed as in the lossy branch
Mut_CompressLossless(source_values, resample_resolution) ==
    get_tile_metadata_bytes(resample_resolution, 0, LOSSLESS_TILE_MAGIC_NUMBER)
        \o statistical_data_bytes(source_values)
        \o compress_tile_data(TRUE, nan_to_num(tile_data_of(source_values)), <<>>)
\* compress_data, the lossless branch
CompressLossless(source_values, resample_resolution) ==
    get_tile_metadata_bytes(resample_resolution, 0, LOSSLESS_TILE_MAGIC_NUMBER)
        \o statistical_data_bytes(source_values)
        \o compress_tile_data(TRUE, tile_data_of(source_values), <<>>)

\* compress_data, the lossy branch
CompressLossy(source_values, resample_resolution, added_compression_error, errors) ==
    LET compressed_nan_mask == compress_nan_mask(nan_mask_of(tile_data_of(source_values)))
        compressed_tile_data ==
            compress_tile_data(FALSE, nan_to_num(tile_data_of(source_values)), errors)
        max_error == MaxErrorOf(source_values, decompress_tile_data(compressed_tile_data, FALSE))
                         + added_compression_error
    IN get_tile_metadata_bytes(resample_resolution, ByteLen(compressed_nan_mask), max_error)
           \o statistical_data_bytes(source_values)
           \o compressed_nan_mask \o compressed_tile_data

\* Tile.compress_data; errors is what zfp adds to each pixel
compress_data(source_values, lossless, resample_resolution, added_compression_error, errors) ==
    IF \A k \in DOMAIN source_values.values : source_values.values[k].nan
    THEN Blob(get_tile_metadata_bytes(0, 0, NAN_TILE_MAGIC_NUMBER))
    ELSE IF Len(source_values.shape) # 2
    THEN Raise   \* IndexError: source_values.shape[1]
    ELSE IF source_values.shape[1] > TILE_SIZE \/ source_values.shape[2] > TILE_SIZE
    THEN Raise   \* ValueError: could not broadcast
    ELSE IF lossless
    THEN Blob(CompressLossless(source_values, resample_resolution))
    ELSE Blob(CompressLossy(source_values, resample_resolution, added_compression_error,
                            errors))

\* the mask is dropped: the decoded values are returned as they are
Mut_AddMask(x, m) == x
\* tile_data + nan_mask, one pixel
AddMask(x, m) == IF x.nan \/ m.nan THEN NaN ELSE Val(x.v + m.v)

Decoded(values, max_error) == [status |-> "ok", values |-> values, max_error |-> max_error]
DecodeError == [status |-> "error", values |-> <<>>, max_error |-> 0]
\* np.frombuffer(...).reshape((T, T))
Reshape(values, max_error) ==
    IF Len(values) = TILE_SIZE * TILE_SIZE THEN Decoded(values, max_error) ELSE DecodeError

IsNumber(f, n) == ~f.nan /\ f.d = 1 /\ f.v = n

\* tile_data + nan_mask
AddMasks(values, nan_mask, max_error) ==
    IF Len(nan_mask) # TILE_SIZE * TILE_SIZE \/ Len(values) # TILE_SIZE * TILE_SIZE
    THEN DecodeError
    ELSE Decoded([k \in TileCells |-> AddMask(values[k], nan_mask[k])], max_error)

\* Tile.decompress, the lossy branch
DecompressLossy(data, nan_mask_length, max_error) ==
    AddMasks(decompress_tile_data(BytesOf(data, 56 + nan_mask_length, ByteLen(data)), FALSE),
             decompress_nan_mask(BytesOf(data, 56, 56 + nan_mask_length)), max_error)

\* Tile.decompress, after the checks of format and version
DecompressBody(data, max_compression_error_or_magic_number) ==
    IF IsNumber(max_compression_error_or_magic_number, NAN_TILE_MAGIC_NUMBER)
    THEN Decoded([k \in TileCells |-> NaN], 0)
    ELSE IF IsNumber(max_compression_error_or_magic_number, LOSSLESS_TILE_MAGIC_NUMBER)
    THEN Reshape(decompress_tile_data(BytesOf(data, 56, ByteLen(data)), TRUE), 0)
    ELSE DecompressLossy(data, Unpack(data, 12, 16).v,
                         max_compression_error_or_magic_number.v)

\* Tile.decompress
decompress(data) ==
    IF ~IsNumber(Unpack(data, 0, 4), TILE_FORMAT_MAGIC_BYTES) THEN DecodeError
    ELSE IF ~IsNumber(Unpack(data, 4, 8), TILE_VERSION) THEN DecodeError
    ELSE DecompressBody(data, Unpack(data, 16, 24))

\* generate_from_data: resample_resolution = 1 leaves the window as it is
adjusted_resample_resolution == 1

\* Tile.generate_from_data, after the read of the window; r is what
\* source_data[...] returned
generate_from_data(t, r) ==
    IF r.status # "ok" THEN Raise
    ELSE LET reduced == LodReduce(t, [shape |-> r.shape, values |-> r.values])
         IN IF reduced.error THEN Raise
            ELSE compress_data(reduced, compress_lossless, adjusted_resample_resolution, 0,
                               [k \in TileCells |-> 0])

(***************************************************************************)
(* Tile generation as a state machine.                                     *)
(***************************************************************************)
\* the array the tiles are cut from: its edge tiles are 1 pixel wide or high
TileShape == <<3, 2, 3>>
TileChunkings == {<<(<<3>>), <<2>>, <<3>>>>, <<(<<1, 2>>), <<2>>, <<2, 1>>>>}
\* no NaN, NaN on every other cell, NaN everywhere
TileArrays ==
    {IdentityArray(TileShape),
     [c \in CellsOf(TileShape) |->
         IF (c[1] + c[2] + c[3]) % 2 = 1 THEN NaN ELSE IdentityArray(TileShape)[c]],
     [c \in CellsOf(TileShape) |-> NaN]}
TileSources ==
    {s \in UNION {SourcesOf(TileShape, values) : values \in TileArrays} :
        s.chunks = <<>> \/ s.chunks \in TileChunkings}

\* TileServer.__init__(widget_mode = True) and startup_widget
InitGenerate ==
    /\ data_source \in TileSources
    /\ chunk_cache = <<>>
    /\ backing_reads = [k \in ChunkKeys(data_source.chunks) |-> 0]
    /\ result = NoResult
    /\ use_data_source_proxy \in BOOLEAN
    /\ compress_lossless = TRUE
    /\ tile = NoTile
    /\ decoded = NoDecoded
    /\ WidgetIdle
    /\ StandaloneIdle
    /\ ExtraIdle

\* what source_data[arg] may return: an unwritten cell shows any garbage
Reads(arg) ==
    IF HasUnwritten(SourceGetItem(Proxy, arg, NaN))
    THEN {SourceGetItem(Proxy, arg, garbage) : garbage \in GarbageValues}
    ELSE {SourceGetItem(Proxy, arg, NaN)}

Generated(t, r, blob) ==
    /\ chunk_cache' = r.cache
    /\ backing_reads' = r.reads
    /\ tile' = [status |-> blob.status, t |-> t, arg |-> TileWindow(t),
                window |-> [shape |-> r.shape, values |-> r.values], added |-> 0,
                data |-> blob.data]
    /\ UNCHANGED <<data_source, result, use_data_source_proxy, compress_lossless, decoded,
                   widgetVars, standaloneVars, extraVars>>

\* t.generate_from_data(source, tile_compressor)
Generate(t) ==
    /\ tile.status = "none"
    /\ \E r \in Reads(TileWindow(t)) : \E blob \in {generate_from_data(t, r)} :
          Generated(t, r, blob)

\* t.decompress(data, tile_compressor)
Decompress ==
    /\ tile.status = "ok" /\ decoded.status = "none"
    /\ decoded' = decompress(tile.data)
    /\ UNCHANGED <<proxyVars, use_data_source_proxy, compress_lossless, tile, widgetVars, standaloneVars, extraVars>>

\* the caller is done with the tile
TileDone ==
    /\ tile.status # "none"
    /\ tile' = NoTile /\ decoded' = NoDecoded
    /\ UNCHANGED <<proxyVars, use_data_source_proxy, compress_lossless, widgetVars, standaloneVars, extraVars>>

GenerateTile == \E t \in Tiles : Generate(t)

NextGenerate == GenerateTile \/ Decompress \/ TileDone

SpecGenerate == InitGenerate /\ [][NextGenerate]_vars

(***************************************************************************)
(* The codec on its own: compress_data and decompress over every window.   *)
(***************************************************************************)
\* the value of the k-th cell of a window when it is not NaN: all different,
\* of both signs
CodecValue(k) == Val(IF k % 2 = 0 THEN 4 * k ELSE 0 - 4 * k)
\* the windows of at most T x T pixels, the empty ones included, with NaN on
\* any set of cells
Windows ==
    UNION {{[shape |-> <<hw[1], hw[2]>>,
             values |-> [k \in 1..(hw[1] * hw[2]) |->
                            IF k \in nans THEN NaN ELSE CodecValue(k)]] :
               nans \in SUBSET (1..(hw[1] * hw[2]))} :
           hw \in (0..TILE_SIZE) \X (0..TILE_SIZE)}

InitCodec ==
    /\ data_source \in {s \in TileSources : s.kind = "ndarray" /\ s.values = IdentityArray(TileShape)}
    /\ chunk_cache = <<>>
    /\ backing_reads = <<>>
    /\ result = NoResult
    /\ use_data_source_proxy = FALSE
    /\ compress_lossless \in BOOLEAN
    /\ tile = NoTile
    /\ decoded = NoDecoded
    /\ WidgetIdle
    /\ StandaloneIdle
    /\ ExtraIdle

\* the values of added_compression_error: the default and a positive one
AddedErrors == {0, 3}

\* t.compress_data(w, tile_compressor, 1, added_compression_error)
CompressData(w, added_compression_error, errors) ==
    /\ tile.status = "none"
    /\ \E blob \in {compress_data(w, compress_lossless, 1, added_compression_error, errors)} :
          tile' = [status |-> blob.status, t |-> <<>>, arg |-> <<>>, window |-> w,
                   added |-> added_compression_error, data |-> blob.data]
    /\ UNCHANGED <<proxyVars, use_data_source_proxy, compress_lossless, decoded, widgetVars, standaloneVars, extraVars>>

Compress ==
    \E w \in Windows :
        \E errors \in (IF compress_lossless THEN {[k \in TileCells |-> 0]} ELSE ZfpErrors) :
            \E added_compression_error \in AddedErrors :
                CompressData(w, added_compression_error, errors)

NextCodec == Compress \/ Decompress \/ TileDone

SpecCodec == InitCodec /\ [][NextCodec]_vars

(***************************************************************************)
(* Properties of Tile.                                                     *)
(***************************************************************************)
\* the half-open range [c * S * T, (c + 1) * S * T) of a tile coordinate c
TileRange(c, lod) == Slc(c * Pow2(lod) * TILE_SIZE, (c + 1) * Pow2(lod) * TILE_SIZE)

\* C8: generate_from_data reads, for axis Z, z = slice index, y in the range
\* of ty and x in the range of tx; for axis Y, y = slice index, z in the range
\* of ty and x in the range of tx; for axis X, x = slice index, z in the
\* range of ty and y in the range of tx.
C8_SourceWindow ==
    (tile.status # "none" /\ tile.t # <<>>) =>
        /\ tile.t.index_dimension = "Z" =>
              tile.arg = <<Idx(tile.t.index_value), TileRange(tile.t.y, tile.t.lod),
                           TileRange(tile.t.x, tile.t.lod)>>
        /\ tile.t.index_dimension = "Y" =>
              tile.arg = <<TileRange(tile.t.y, tile.t.lod), Idx(tile.t.index_value),
                           TileRange(tile.t.x, tile.t.lod)>>
        /\ tile.t.index_dimension = "X" =>
              tile.arg = <<TileRange(tile.t.y, tile.t.lod), TileRange(tile.t.x, tile.t.lod),
                           Idx(tile.t.index_value)>>

\* a tile of axis X whose column and row differ, generated from the window
\* z in [2, 4), y in [0, 2), x = 0 and decoded to the pixels of that window
C8_Witness ==
    /\ tile.status = "ok"
    /\ tile.t = [index_dimension |-> "X", index_value |-> 0, lod |-> 0, x |-> 0, y |-> 1]
    /\ tile.arg = <<Slc(2, 4), Slc(0, 2), Idx(0)>>
    /\ decoded.status = "ok"
    /\ decoded.values = <<Val(52), Val(64), NaN, NaN>>

\* Tile.get_tiles_in_range: the tiles of the grid of the data set
InGrid(t) ==
    LET width == IF t.index_dimension \in {"Z", "Y"} THEN Nx ELSE Ny
        height == IF t.index_dimension = "Z" THEN Ny ELSE Nz
        depth == CASE t.index_dimension = "Z" -> Nz
                   [] t.index_dimension = "Y" -> Ny
                   [] t.index_dimension = "X" -> Nx
    IN /\ t.index_value < depth
       /\ t.x < CeilDiv(width, lod_tile_size(t))
       /\ t.y < CeilDiv(height, lod_tile_size(t))

\* the source cell under the pixel (row, col) of a tile at lod 0
CellUnder(t, row, col) ==
    CASE t.index_dimension = "Z" -> <<t.index_value, t.y * TILE_SIZE + row, t.x * TILE_SIZE + col>>
      [] t.index_dimension = "Y" -> <<t.y * TILE_SIZE + row, t.index_value, t.x * TILE_SIZE + col>>
      [] t.index_dimension = "X" -> <<t.y * TILE_SIZE + row, t.x * TILE_SIZE + col, t.index_value>>

\* T x T values: the source where the window is in bounds, NaN elsewhere
PaddedWindow(t) ==
    [k \in TileCells |->
        IF CellUnder(t, RowOf(k), ColOf(k)) \in DOMAIN data_source.values
        THEN data_source.values[CellUnder(t, RowOf(k), ColOf(k))] ELSE NaN]

\* C9: every in-grid tile at lod 0, edge tiles of any in-bounds extent
\* included, is generated, and decodes to T x T values: the in-bounds source
\* window in the top-left block, NaN in the remaining rows and columns.
C9_TileIsPaddedWindow ==
    (tile.status # "none" /\ tile.t # <<>> /\ tile.t.lod = 0 /\ InGrid(tile.t)) =>
        /\ tile.status = "ok"
        /\ decoded.status # "none" =>
              (decoded.status = "ok" /\ decoded.values = PaddedWindow(tile.t))

\* the pixel k of the tile lies in the padding outside the window
InPadding(w, k) == ~(RowOf(k) < w.shape[1] /\ ColOf(k) < w.shape[2])

\* C10: in both codec modes a pixel of decompress(compress_data(w)) is NaN
\* if and only if the pixel of w is NaN or lies in the padding outside w.
C10_NaNPreserved ==
    (tile.status # "none" /\ tile.t = <<>>) =>
        /\ tile.status = "ok"
        /\ decoded.status # "none" =>
              /\ decoded.status = "ok"
              /\ \A k \in TileCells :
                    decoded.values[k].nan <=>
                        (InPadding(tile.window, k)
                            \/ At(tile.window, RowOf(k), ColOf(k)).nan)

\* a lossy round trip of a window narrower than the tile that holds both a
\* NaN and a value, with a non-zero zfp error
C10_Witness ==
    /\ ~compress_lossless /\ decoded.status = "ok"
    /\ tile.window.shape = <<2, 1>>
    /\ tile.window.values = <<NaN, Val(8)>>
    /\ decoded.values = <<NaN, NaN, Val(9), NaN>>
    /\ decoded.max_error = 1

\* C11: in lossless mode a window with at least one value is encoded with
\* sentinel -2 and nan_mask_length 0, the tile frame follows the statistics at
\* byte 56 with no mask before it, and the blob decodes to the window padded
\* to T x T, value for value, with error 0; decoding the blob again gives the
\* same matrix and error.
C11_LosslessExact ==
    (compress_lossless /\ tile.status # "none" /\ Finite(tile.window) # {}) =>
        /\ tile.status = "ok"
        /\ IsNumber(Unpack(tile.data, 16, 24), LOSSLESS_TILE_MAGIC_NUMBER)
        /\ IsNumber(Unpack(tile.data, 12, 16), 0)
        /\ decompress_tile_data(BytesOf(tile.data, 56, ByteLen(tile.data)), TRUE)
               = tile_data_of(tile.window)
        /\ decoded.status # "none" =>
              /\ decoded = Decoded(tile_data_of(tile.window), 0)
              /\ decompress(tile.data) = decoded

\* a lossless round trip of a window lower than the tile that holds both a
\* NaN and a value
C11_Witness ==
    /\ compress_lossless /\ decoded.status = "ok"
    /\ tile.window.shape = <<1, 2>>
    /\ tile.window.values = <<NaN, Val(8)>>
    /\ decoded.values = <<NaN, Val(8), NaN, NaN>>
    /\ decoded.max_error = 0

\* the absolute errors of the decoded pixels that hold a value in the window
DecodeErrors ==
    {Abs(decoded.values[k].v - tile_data_of(tile.window)[k].v) :
        k \in {c \in TileCells : ~tile_data_of(tile.window)[c].nan}}

\* C12: the max_error of a lossy tile with at least one value is the largest
\* absolute difference between a decoded pixel and the value of the window at
\* that pixel, plus added_compression_error, which is not negative; no decoded
\* pixel is further from its value than max_error.
C12_MaxErrorBounds ==
    (~compress_lossless /\ tile.status = "ok" /\ Finite(tile.window) # {}
        /\ decoded.status # "none") =>
        /\ decoded.status = "ok"
        /\ tile.added >= 0
        /\ \A e \in DecodeErrors : e <= decoded.max_error
        /\ \E e \in DecodeErrors : decoded.max_error = e + tile.added
        /\ IsNumber(Unpack(tile.data, 16, 24), decoded.max_error)

\* a lossy tile with errors -1 and +1 on its two values and a NaN beside
\* them, encoded with an added error of 3
C12_Witness ==
    /\ ~compress_lossless /\ decoded.status = "ok"
    /\ tile.window.shape = <<2, 2>>
    /\ tile.window.values = <<Val(-4), Val(8), NaN, Val(16)>>
    /\ decoded.values = <<Val(-5), Val(9), NaN, Val(15)>>
    /\ tile.added = 3
    /\ decoded.max_error = 4

\* C13: a window whose values are all NaN, the empty window included, is
\* encoded in both modes as the 24 bytes of the header alone: "lexc", version
\* 2, resample_resolution 0, nan_mask_length 0 and the double -1; the blob
\* decodes to T x T NaN with error 0.
C13_NaNTileIsHeader ==
    (tile.status # "none" /\ tile.t = <<>> /\ Finite(tile.window) = {}) =>
        /\ tile.status = "ok"
        /\ ByteLen(tile.data) = 24
        /\ IsNumber(Unpack(tile.data, 0, 4), TILE_FORMAT_MAGIC_BYTES)
        /\ IsNumber(Unpack(tile.data, 4, 8), 2)
        /\ IsNumber(Unpack(tile.data, 8, 12), 0)
        /\ IsNumber(Unpack(tile.data, 12, 16), 0)
        /\ IsNumber(Unpack(tile.data, 16, 24), -1)
        /\ decoded.status # "none" => decoded = Decoded([k \in TileCells |-> NaN], 0)

\* a lossy tile of a window of two NaN, decoded
C13_Witness ==
    /\ ~compress_lossless /\ decoded.status = "ok"
    /\ tile.window = [shape |-> <<1, 2>>, values |-> <<NaN, NaN>>]
    /\ Len(tile.data) = 5
    /\ decoded.values = <<NaN, NaN, NaN, NaN>>

(***************************************************************************)
(* The widget-mode dispatcher: TileServer and receive_message.             *)
(***************************************************************************)
MaxGroups == 2        \* messages (request groups) received in a run
MaxRequests == 2      \* requests in one message
MaxXys == 2           \* tile coordinates in one request
MaxGenerations == 2   \* the counter of generator calls saturates here

dimension_mapping == [by_z |-> "Z", by_y |-> "Y", by_x |-> "X"]
\* Dimension.value
DimensionValue(d) == CASE d = "Z" -> 0 [] d = "Y" -> 1 [] d = "X" -> 2

\* Tile.get_hash_key of Tile(TILE_SIZE, "", "", ...): the joined fields
get_hash_key(t) ==
    <<"", "", DimensionValue(t.index_dimension), t.index_value, t.lod, t.x, t.y>>

\* the state a message handler works on
Server ==
    [next_request_id |-> next_request_id,
     next_request_group_id |-> next_request_group_id,
     request_progress |-> request_progress,
     tile_memory_cache |-> tile_memory_cache,
     cache |-> chunk_cache, reads |-> backing_reads,
     generator_calls |-> generator_calls, first_stored |-> first_stored,
     widget_progress |-> <<>>, sent |-> <<>>, message |-> <<>>, raised |-> FALSE]

\* the largest of the entries instead of their sum
Mut_SumOf(current, i) ==
    CHOOSE m \in {current[r][i] : r \in DOMAIN current} :
        \A r \in DOMAIN current : current[r][i] <= m
\* sum(c[i] for c in current.values())
SumOf(current, i) == SumOver([r \in DOMAIN current |-> current[r][i]], DOMAIN current)

\* update_progress: the entry of the request is set or its done count updated
StoreProgress(progress, request_group_id, request_id, done, total) ==
    LET groups == IF request_group_id \notin DOMAIN progress
                     \/ progress[request_group_id] = <<>>
                  THEN (request_group_id :> <<>>) @@ progress
                  ELSE progress
    IN (request_group_id :>
           IF total >= 0
           THEN (request_id :> <<done, total>>) @@ groups[request_group_id]
           ELSE [groups[request_group_id] EXCEPT ![request_id] = <<done, @[2]>>])
       @@ groups

Progressed(sv, progress, request_group_id, done, total) ==
    [sv EXCEPT !.request_progress = progress,
               !.widget_progress =
                   Append(@, [group |-> request_group_id, done |-> done, total |-> total])]

\* the pair of the request itself is reported, not the sums over the group
Mut_update_progress(sv, request_group_id, request_id, done, total) ==
    LET progress == StoreProgress(sv.request_progress, request_group_id, request_id, done, total)
    IN Progressed(sv, progress, request_group_id,
                  progress[request_group_id][request_id][1],
                  progress[request_group_id][request_id][2])
\* TileServer.update_progress in widget mode
update_progress(sv, request_group_id, request_id, done, total) ==
    LET progress == StoreProgress(sv.request_progress, request_group_id, request_id, done, total)
    IN Progressed(sv, progress, request_group_id,
                  SumOf(progress[request_group_id], 1), SumOf(progress[request_group_id], 2))

RECURSIVE Register(_, _, _, _)
\* the loop of pre_register_requests over the requests of a message
Register(sv, request_group_id, requests, i) ==
    IF i > Len(requests) THEN sv
    ELSE Register(
            [update_progress(sv, request_group_id, sv.next_request_id, 0,
                             Len(requests[i].xys))
                EXCEPT !.next_request_id = @ + 1,
                       !.message = Append(@, [indexDimension |-> requests[i].indexDimension,
                                              indexValue |-> requests[i].indexValue,
                                              lod |-> requests[i].lod,
                                              xys |-> requests[i].xys,
                                              request_id |-> sv.next_request_id,
                                              request_group_id |-> request_group_id])],
            request_group_id, requests, i + 1)

\* the group counter is left as it is
Mut_pre_register_requests(sv, requests) ==
    Register(sv, sv.next_request_group_id, requests, 1)
\* TileServer.pre_register_requests
pre_register_requests(sv, requests) ==
    Register([sv EXCEPT !.next_request_group_id = @ + 1], sv.next_request_group_id,
             requests, 1)

\* Tile(self.TILE_SIZE, "", "", index_dimension, index_value, lod, xy[0], xy[1])
TileOf(request, xy) ==
    [index_dimension |-> dimension_mapping[request.indexDimension],
     index_value |-> request.indexValue, lod |-> request.lod, x |-> xy[1], y |-> xy[2]]

\* the tile was not cached: it is generated and, unless that raised, stored
Miss(sv, key, r, blob) ==
    [sv |-> [sv EXCEPT !.cache = r.cache, !.reads = r.reads,
                       !.generator_calls =
                           (key :> Min((IF key \in DOMAIN @ THEN @[key] ELSE 0) + 1,
                                       MaxGenerations)) @@ @,
                       !.tile_memory_cache =
                           IF blob.status = "ok" THEN (key :> blob.data) @@ @ ELSE @,
                       !.first_stored =
                           IF blob.status = "ok" /\ key \notin DOMAIN @
                           THEN (key :> blob.data) @@ @ ELSE @],
     status |-> blob.status, d |-> blob.data]

Generation(sv, t, r) == Miss(sv, get_hash_key(t), r, generate_from_data(t, r))

\* handle_tile_request_widget: the blob of one tile, from the memory cache
\* or from the generator
FetchTile(sv, t, garbage) ==
    IF get_hash_key(t) \in DOMAIN sv.tile_memory_cache
    THEN [sv |-> sv, status |-> "ok", d |-> sv.tile_memory_cache[get_hash_key(t)]]
    ELSE CHOOSE g \in {Generation(sv, t, r) :
                          r \in {SourceGetItem([cache |-> sv.cache, reads |-> sv.reads],
                                               TileWindow(t), garbage)}} : TRUE

\* the new blob is put in front of the buffer
Mut_AppendBlob(data, d) == d \o data
\* data += d
AppendBlob(data, d) == data \o d

\* the return value of handle_tile_request_widget, as replied
Response(request, sizes, data) ==
    [response_type |-> "tile_data", metadata |-> request, dataSizes |-> sizes,
     buffer |-> data]

RECURSIVE HandleTiles(_, _, _, _, _, _)
\* the loop of handle_tile_request_widget over xys, from the k-th coordinate
\* on; a generator that raises ends the handler without a reply
HandleTiles(sv, request, k, data, sizes, garbage) ==
    IF k > Len(request.xys)
    THEN [sv EXCEPT !.sent = Append(@, Response(request, sizes, data))]
    ELSE CHOOSE out \in
            {IF got.status # "ok" THEN [got.sv EXCEPT !.raised = TRUE]
             ELSE HandleTiles(update_progress(got.sv, request.request_group_id,
                                              request.request_id, Len(sizes) + 1, -1),
                              request, k + 1, AppendBlob(data, got.d),
                              Append(sizes, ByteLen(got.d)), garbage) :
                got \in {FetchTile(sv, TileOf(request, request.xys[k]), garbage)}} : TRUE

\* the handler with the first coordinate of xys left out
Mut_handle_tile_request_widget(sv, request, garbage) ==
    HandleTiles(sv, request, 2, <<>>, <<>>, garbage)
\* TileServer.handle_tile_request_widget followed by reply(...)
handle_tile_request_widget(sv, request, garbage) ==
    HandleTiles(sv, request, 1, <<>>, <<>>, garbage)

RECURSIVE HandleAll(_, _, _)
\* receive_message: the loop over the requests; an exception leaves it
HandleAll(sv, i, garbage) ==
    IF i > Len(sv.message) \/ sv.raised THEN sv
    ELSE HandleAll(handle_tile_request_widget(sv, sv.message[i], garbage), i + 1, garbage)

\* receive_message(widget, content, buffers)
receive_message(sv, requests, garbage) ==
    HandleAll(pre_register_requests(sv, requests), 1, garbage)

(***************************************************************************)
(* The widget as a state machine.                                          *)
(***************************************************************************)
RECURSIVE SeqsUpTo(_, _)
\* the sequences over S of length 0..n
SeqsUpTo(S, n) ==
    IF n = 0 THEN {<<>>}
    ELSE SeqsUpTo(S, n - 1)
            \cup {Append(q, x) : q \in {p \in SeqsUpTo(S, n - 1) : Len(p) = n - 1}, x \in S}

\* a full tile and an edge tile one pixel wide, of the slice y = 0
WidgetXY == {<<0, 0>>, <<1, 0>>}
\* the coordinate lists of up to MaxXys entries that repeat one tile or
\* alternate between the two, the empty list included
XysLists == {xys \in SeqsUpTo(WidgetXY, MaxXys) : \A i \in 3..Len(xys) : xys[i] = xys[i - 2]}
Reverse(q) == [i \in 1..Len(q) |-> q[Len(q) + 1 - i]]
WidgetRequest(xys) == [indexDimension |-> "by_y", indexValue |-> 0, lod |-> 0, xys |-> xys]
\* a message of n requests: every odd one asks for xys, every even one for
\* xys reversed, or for xys reversed without its first entry
MessageOf(xys, n, shorter) ==
    [i \in 1..n |->
        WidgetRequest(IF i % 2 = 1 THEN xys
                      ELSE IF shorter /\ xys # <<>> THEN Tail(Reverse(xys))
                      ELSE Reverse(xys))]
Messages ==
    {MessageOf(xys, n, shorter) : xys \in XysLists, n \in 0..MaxRequests, shorter \in BOOLEAN}

\* an ndarray, and a DataArray with dask chunks behind the chunk-caching proxy
WidgetSources ==
    {s \in TileSources :
        /\ s.values = IdentityArray(TileShape)
        /\ s.kind = "ndarray" \/ s.chunks = <<(<<1, 2>>), <<2>>, <<2, 1>>>>}

\* start_tile_server_in_widget_mode
InitWidget ==
    /\ data_source \in WidgetSources
    /\ chunk_cache = <<>>
    /\ backing_reads = [k \in ChunkKeys(data_source.chunks) |-> 0]
    /\ result = NoResult
    /\ use_data_source_proxy \in BOOLEAN
    /\ compress_lossless = TRUE
    /\ tile = NoTile
    /\ decoded = NoDecoded
    /\ WidgetIdle
    /\ StandaloneIdle
    /\ ExtraIdle

\* the garbage an unwritten cell of a proxy window may show, if any tile of
\* the message has such a cell
GarbageFor(requests) ==
    IF \E i \in DOMAIN requests : \E k \in DOMAIN requests[i].xys :
          HasUnwritten(SourceGetItem(Proxy, TileWindow(TileOf(requests[i], requests[i].xys[k])),
                                     NaN))
    THEN GarbageValues ELSE {NaN}

Received(sv) ==
    /\ next_request_id' = sv.next_request_id
    /\ next_request_group_id' = sv.next_request_group_id
    /\ request_progress' = sv.request_progress
    /\ tile_memory_cache' = sv.tile_memory_cache
    /\ chunk_cache' = sv.cache
    /\ backing_reads' = sv.reads
    /\ generator_calls' = sv.generator_calls
    /\ first_stored' = sv.first_stored
    /\ widget_progress' = sv.widget_progress
    /\ sent' = sv.sent
    /\ message' = [status |-> IF sv.raised THEN "raised" ELSE "done", requests |-> sv.message]
    /\ UNCHANGED <<data_source, result, tileVars, standaloneVars, extraVars>>

\* one message from the front end, handled to its end
ReceiveMessage(requests) ==
    /\ message.status = "none"
    /\ next_request_group_id < MaxGroups
    /\ \E garbage \in GarbageFor(requests) :
          \E sv \in {receive_message(Server, requests, garbage)} : Received(sv)

\* the callback has returned; its replies are with the front end
MessageDone ==
    /\ message.status # "none"
    /\ message' = NoMessage /\ widget_progress' = <<>> /\ sent' = <<>>
    /\ UNCHANGED <<proxyVars, tileVars, serverVars, generator_calls, first_stored,
                   standaloneVars, extraVars>>

Receive == \E requests \in Messages : ReceiveMessage(requests)

NextWidget == Receive \/ MessageDone

SpecWidget == InitWidget /\ [][NextWidget]_vars

(***************************************************************************)
(* Properties of the widget-mode dispatcher.                               *)
(***************************************************************************)
\* C1: over the progress pairs emitted for one request group, by
\* pre_register_requests and by handle_tile_request_widget, every pair has
\* done_sum <= total_sum and no done_sum is below an earlier one of the group.
C1_ProgressMonotone ==
    /\ \A i \in DOMAIN widget_progress : widget_progress[i].done <= widget_progress[i].total
    /\ \A i, j \in DOMAIN widget_progress :
          (i < j /\ widget_progress[i].group = widget_progress[j].group)
              => widget_progress[i].done <= widget_progress[j].done

\* a message of two requests of two tiles each, all handled: four
\* registrations and updates before the last pair (4, 4)
C1_Witness ==
    /\ message.status = "done" /\ Len(message.requests) = 2
    /\ Len(widget_progress) = 6
    /\ widget_progress[2] = [group |-> 1, done |-> 0, total |-> 4]
    /\ widget_progress[4] = [group |-> 1, done |-> 2, total |-> 4]
    /\ widget_progress[6] = [group |-> 1, done |-> 4, total |-> 4]

RECURSIVE Concat(_)
\* the concatenation of a sequence of blobs
Concat(blobs) == IF blobs = <<>> THEN <<>> ELSE Head(blobs) \o Concat(Tail(blobs))

\* the blobs, in the order of xys, that the store holds for the tiles of a request
BlobsOf(request, store) ==
    [k \in DOMAIN request.xys |-> store[get_hash_key(TileOf(request, request.xys[k]))]]

\* C2: the response to a request with coordinate list xys has one entry of
\* dataSizes per entry of xys, dataSizes[i] is the byte length of the blob of
\* tile xys[i], and the buffer is those blobs concatenated in the order of xys.
C2_ResponseLayout ==
    \A i \in DOMAIN sent :
        /\ sent[i].metadata = message.requests[i]
        /\ Len(sent[i].dataSizes) = Len(sent[i].metadata.xys)
        /\ \A k \in DOMAIN sent[i].metadata.xys :
              /\ get_hash_key(TileOf(sent[i].metadata, sent[i].metadata.xys[k]))
                     \in DOMAIN tile_memory_cache
              /\ sent[i].dataSizes[k]
                     = ByteLen(BlobsOf(sent[i].metadata, tile_memory_cache)[k])
        /\ sent[i].buffer = Concat(BlobsOf(sent[i].metadata, tile_memory_cache))
        /\ ByteLen(sent[i].buffer) = SumSeq(sent[i].dataSizes)

\* two replies to requests for the same two tiles in opposite orders, the
\* second answered from the memory cache
C2_Witness ==
    /\ Len(sent) = 2
    /\ sent[1].metadata.xys = <<(<<0, 0>>), <<1, 0>>>>
    /\ sent[2].metadata.xys = <<(<<1, 0>>), <<0, 0>>>>
    /\ sent[2].dataSizes[1] > 0 /\ sent[2].dataSizes[2] > 0
    /\ BlobsOf(sent[2].metadata, tile_memory_cache)[1]
           # BlobsOf(sent[2].metadata, tile_memory_cache)[2]

\* C3: the generator is invoked only on a memory-cache miss and at most once
\* per tile identity; a stored blob is never replaced; every response for an
\* identity carries the bytes first stored.
C3_GenerateOncePerTile ==
    /\ \A key \in DOMAIN generator_calls : generator_calls[key] <= 1
    /\ \A key \in DOMAIN tile_memory_cache :
          /\ key \in DOMAIN first_stored /\ tile_memory_cache[key] = first_stored[key]
          /\ key \in DOMAIN generator_calls
    /\ \A i \in DOMAIN sent :
          sent[i].buffer = Concat(BlobsOf(sent[i].metadata, first_stored))

(***************************************************************************)
(* The standalone server: data sets, block files and the dispatcher.       *)
(***************************************************************************)
MaxFiles == 2    \* the block files built in one run

\* math.ceil(pow(0.5, lod) * extent / tile_size)
TilesAlong(extent, lod) == CeilDiv(extent, Pow2(lod) * TILE_SIZE)
\* the width and the height of the slices of an axis
WidthOf(ds, index_dimension) ==
    IF index_dimension \in {"Z", "Y"} THEN ds.x_max ELSE ds.y_max
HeightOf(ds, index_dimension) ==
    IF index_dimension = "Z" THEN ds.y_max ELSE ds.z_max

\* Dataset.generate_block_indices: block_contents[axis][lod] = (x_tiles, y_tiles)
generate_block_indices(ds) ==
    [index_dimension \in Dimension |->
        [l \in 1..(ds.max_lod + 1) |->
            <<TilesAlong(WidthOf(ds, index_dimension), l - 1),
              TilesAlong(HeightOf(ds, index_dimension), l - 1)>>]]

\* Tile(tile_size, dataset_id, parameter, index_dimension, index_value, lod, x, y)
Tile(index_dimension, index_value, lod, x, y) ==
    [index_dimension |-> index_dimension, index_value |-> index_value, lod |-> lod,
     x |-> x, y |-> y]

\* the tiles of one lod with the loops over x and y exchanged
Mut_TilesOfLod(ds, index_dimension, index_value, lod) ==
    Concat([x \in 1..TilesAlong(WidthOf(ds, index_dimension), lod) |->
               [y \in 1..TilesAlong(HeightOf(ds, index_dimension), lod) |->
                   Tile(index_dimension, index_value, lod, x - 1, y - 1)]])
\* Tile.get_tiles_in_range, the loops over y and x
TilesOfLod(ds, index_dimension, index_value, lod) ==
    Concat([y \in 1..TilesAlong(HeightOf(ds, index_dimension), lod) |->
               [x \in 1..TilesAlong(WidthOf(ds, index_dimension), lod) |->
                   Tile(index_dimension, index_value, lod, x - 1, y - 1)]])
\* Tile.get_tiles_in_range
get_tiles_in_range(ds, index_dimension, index_values, lods) ==
    Concat([i \in DOMAIN index_values |->
               Concat([l \in DOMAIN lods |->
                          TilesOfLod(ds, index_dimension, index_values[i], lods[l])])])
\* range(0, dataset.max_lod + 1)
LodRange(ds) == [l \in 1..(ds.max_lod + 1) |-> l - 1]

\* Tile.get_hash_key of a tile of a data set and a parameter
TileKey(dataset_id, parameter, t) ==
    <<dataset_id, parameter, DimensionValue(t.index_dimension), t.index_value, t.lod,
      t.x, t.y>>
\* TileDiskStorage.get_block_path
get_block_path(ds, parameter, index_dimension, index_value) ==
    <<ds.id, parameter, index_dimension, index_value>>

\* int.to_bytes(n, 4, byteorder = "little")
to_bytes(n) == <<n % 256, (n \div 256) % 256, (n \div 65536) % 256, (n \div 16777216) % 256>>
RECURSIVE from_bytes(_)
\* int.from_bytes(b, byteorder = "little")
from_bytes(b) == IF b = <<>> THEN 0 ELSE Head(b) + 256 * from_bytes(Tail(b))
\* q[a:b] with 0 <= a
PySlice(q, a, b) == SubSeq(q, Min(a, Len(q)) + 1, Min(b, Len(q)))

\* BlockFile.convert_intermediate_single_tile_files: the bytes of the file
convert_intermediate_single_tile_files(cache, ds, parameter, index_dimension, index_value) ==
    LET tiles == get_tiles_in_range(ds, index_dimension, <<index_value>>, LodRange(ds))
        tile_data == [k \in DOMAIN tiles |-> cache[TileKey(ds.id, parameter, tiles[k])]]
        header_data == Concat([k \in DOMAIN tiles |-> to_bytes(Len(tile_data[k]))])
        body_data == Concat(tile_data)
    IN header_data \o body_data

\* BlockFile.__init__
BlockFile(ds, parameter, index_dimension, index_value) ==
    [path |-> get_block_path(ds, parameter, index_dimension, index_value),
     block_contents |-> ds.block_contents[index_dimension],
     total_tiles |-> SumSeq([l \in DOMAIN ds.block_contents[index_dimension] |->
                                ds.block_contents[index_dimension][l][1]
                                    * ds.block_contents[index_dimension][l][2]])]

\* BlockFile.load_header: block_sizes
load_header(blockfile, file) ==
    [i \in 1..blockfile.total_tiles |-> from_bytes(PySlice(file, 4 * (i - 1), 4 * i))]

\* sum of s[0] * s[1] over block_contents[:lod]
BlockIndexOffset(blockfile, lod) ==
    SumSeq([l \in DOMAIN PySlice(blockfile.block_contents, 0, lod) |->
               blockfile.block_contents[l][1] * blockfile.block_contents[l][2]])
\* block_index_offset + tile.y * block_contents[tile.lod][0] + tile.x
BlockIndex(blockfile, block_index_offset, t) ==
    block_index_offset + t.y * blockfile.block_contents[t.lod + 1][1] + t.x

\* only the first tile starts a group
Mut_StartsGroup(block_indices, k) == k = 1
\* groupby(enumerate(block_indices), indices[0] - indices[1]): the k-th tile
\* starts a group unless its index follows the index before it
StartsGroup(block_indices, k) == k = 1 \/ block_indices[k - 1] + 1 # block_indices[k]

NoData == [raised |-> FALSE, pos |-> 0, sizes |-> <<>>, total |-> <<>>]
RECURSIVE ReadGroups(_, _, _, _, _, _)
\* BlockFile.get_tile_data, the loop over the groups of adjacent indices: a
\* tile whose index does not follow the index before it starts a group and
\* seeks to its offset, the others are read where the file stands
ReadGroups(blockfile, block_sizes, file, block_indices, k, acc) ==
    IF k > Len(block_indices) \/ acc.raised THEN acc
    ELSE LET e == block_indices[k]
             my_byte_offset == 4 * blockfile.total_tiles + SumSeq(PySlice(block_sizes, 0, e))
             pos == IF StartsGroup(block_indices, k) THEN my_byte_offset ELSE acc.pos
         IN IF e >= Len(block_sizes)
            THEN [acc EXCEPT !.raised = TRUE]   \* IndexError: self.block_sizes[e]
            ELSE ReadGroups(blockfile, block_sizes, file, block_indices, k + 1,
                     [raised |-> FALSE,
                      pos |-> pos + Len(PySlice(file, pos, pos + block_sizes[e + 1])),
                      sizes |-> Append(acc.sizes, block_sizes[e + 1]),
                      total |-> acc.total \o PySlice(file, pos, pos + block_sizes[e + 1])])

\* BlockFile.get_tile_data
get_tile_data(blockfile, block_sizes, file, tiles) ==
    IF tiles = <<>> THEN [NoData EXCEPT !.raised = TRUE]   \* IndexError: tiles[0]
    ELSE IF \E k \in DOMAIN tiles : tiles[k].lod + 1 \notin DOMAIN blockfile.block_contents
    THEN [NoData EXCEPT !.raised = TRUE]   \* IndexError: block_contents[tile.lod]
    ELSE ReadGroups(blockfile, block_sizes, file,
                    [k \in DOMAIN tiles |->
                        BlockIndex(blockfile, BlockIndexOffset(blockfile, tiles[1].lod),
                                   tiles[k])],
                    1, NoData)

\* TileServer.__init__
ignore_tile_cache == FALSE

\* how a standalone request ends
Outcome(status, paths, messages) ==
    [status |-> status, opened |-> paths, emitted |-> messages]

\* handle_tile_request_standalone, from the BlockFile on
ServeBlockFile(fs, dataset, request_data, tiles) ==
    LET blockfile == BlockFile(dataset, request_data.parameter,
                               dimension_mapping[request_data.indexDimension],
                               request_data.indexValue)
    IN IF blockfile.path \notin DOMAIN fs
       THEN Outcome("raised", <<>>, <<>>)   \* FileNotFoundError: open(self.path)
       ELSE LET r == get_tile_data(blockfile, load_header(blockfile, fs[blockfile.path]),
                                   fs[blockfile.path], tiles)
            IN IF r.raised THEN Outcome("raised", <<blockfile.path>>, <<>>)
               ELSE IF ~ignore_tile_cache
               THEN Outcome("emitted", <<blockfile.path>>,
                            <<[metadata |-> request_data, dataSizes |-> r.sizes,
                               data |-> r.total]>>)
               ELSE Outcome("returned", <<blockfile.path>>, <<>>)

\* the handler without the check of the slice index
Mut_handle_tile_request_standalone(ds, fs, request_data) ==
    IF request_data.indexDimension \notin DOMAIN dimension_mapping
    THEN Outcome("raised", <<>>, <<>>)
    ELSE IF ~(request_data.datasetId \in DOMAIN ds
                /\ request_data.parameter
                       \in ds[request_data.datasetId].all_valid_parameters)
    THEN Outcome("rejected", <<>>, <<>>)
    ELSE ServeBlockFile(fs, ds[request_data.datasetId], request_data,
             [k \in DOMAIN request_data.xys |->
                 Tile(dimension_mapping[request_data.indexDimension],
                      request_data.indexValue, request_data.lod,
                      request_data.xys[k][1], request_data.xys[k][2])])
\* TileServer.handle_tile_request_standalone
handle_tile_request_standalone(ds, fs, request_data) ==
    IF request_data.indexDimension \notin DOMAIN dimension_mapping
    THEN Outcome("raised", <<>>, <<>>)   \* KeyError
    ELSE IF ~(request_data.datasetId \in DOMAIN ds
                /\ request_data.parameter
                       \in ds[request_data.datasetId].all_valid_parameters)
    THEN Outcome("rejected", <<>>, <<>>)
    ELSE IF request_data.indexValue % ds[request_data.datasetId].pre_generation_sparsity # 0
    THEN Outcome("rejected", <<>>, <<>>)
    ELSE ServeBlockFile(fs, ds[request_data.datasetId], request_data,
             [k \in DOMAIN request_data.xys |->
                 Tile(dimension_mapping[request_data.indexDimension],
                      request_data.indexValue, request_data.lod,
                      request_data.xys[k][1], request_data.xys[k][2])])

(***************************************************************************)
(* The standalone server as a state machine.                               *)
(***************************************************************************)
\* the data sets of config.json: one, of either shape (z, y, x)
StandaloneShapes == {<<3, 4, 5>>, <<2, 2, 3>>}
StandaloneIndexValues == {0, 1}
StandaloneAxes == {"Z", "X"}
\* Dataset.open and load_metadata, before generate_block_indices
OpenedDataset(shape, max_lod, pre_generation_sparsity) ==
    [id |-> "cube", z_max |-> shape[1], y_max |-> shape[2], x_max |-> shape[3],
     max_lod |-> max_lod, pre_generation_sparsity |-> pre_generation_sparsity,
     all_valid_parameters |-> {"p"}, block_contents |-> <<>>]
\* the blob of a tile: 1 to 3 bytes that name the tile and their place in it
BlobOf(t) ==
    [j \in 1..(1 + ((t.x + 2 * t.y + t.lod + t.index_value) % 3)) |->
        4 * (t.x + 4 * t.y + 16 * t.lod) + j]
\* the tiles pre-generation leaves in the generation cache
GeneratedTiles(ds) ==
    UNION {{get_tiles_in_range(ds, d, <<iv>>, LodRange(ds))[k] :
               k \in DOMAIN get_tiles_in_range(ds, d, <<iv>>, LodRange(ds))} :
           <<d, iv>> \in StandaloneAxes \X StandaloneIndexValues}

\* TileServer.__init__() and startup_standalone
InitStandalone ==
    /\ data_source \in {s \in TileSources : s.kind = "ndarray" /\ s.values = IdentityArray(TileShape)}
    /\ chunk_cache = <<>>
    /\ backing_reads = <<>>
    /\ result = NoResult
    /\ TileIdle
    /\ WidgetIdle
    /\ \E shape \in StandaloneShapes, max_lod \in 0..MaxLod, sparsity \in {1, 2} :
          \E ds \in {OpenedDataset(shape, max_lod, sparsity)} :
              /\ datasets = [id \in {"cube"} |-> [ds EXCEPT !.block_contents = generate_block_indices(ds)]]
              /\ generation_cache =
                     [key \in {TileKey("cube", "p", t) : t \in GeneratedTiles(ds)} |->
                         BlobOf(CHOOSE t \in GeneratedTiles(ds) : TileKey("cube", "p", t) = key)]
    /\ files = <<>>
    /\ opened = <<>>
    /\ emitted = <<>>
    /\ call = NoCall
    /\ ExtraIdle

\* BlockFile.convert_intermediate_single_tile_files(...) writes a block file
ConvertTiles(index_dimension, index_value) ==
    /\ call.status = "none"
    /\ Cardinality(DOMAIN files) < MaxFiles
    /\ get_block_path(datasets["cube"], "p", index_dimension, index_value) \notin DOMAIN files
    /\ files' = files @@
          (get_block_path(datasets["cube"], "p", index_dimension, index_value) :>
              convert_intermediate_single_tile_files(generation_cache, datasets["cube"], "p",
                                                     index_dimension, index_value))
    /\ UNCHANGED <<proxyVars, tileVars, widgetVars, datasets, generation_cache, opened,
                   emitted, call, extraVars>>

\* the coordinates and the coordinate lists of the requests
StandaloneXY == (0..MaxTileCoord) \X (0..MaxTileCoord)
\* one tile anywhere, two tiles of the first rows and columns in any order,
\* three of the first two tiles
StandaloneXys ==
    {<<xy>> : xy \in StandaloneXY} \cup {<<a, b>> : a, b \in (0..2) \X (0..1)}
        \cup {<<a, b, c>> : a, b, c \in {<<0, 0>>, <<1, 0>>}}
StandaloneRequest(datasetId, parameter, indexDimension, indexValue, lod, xys) ==
    [datasetId |-> datasetId, parameter |-> parameter, indexDimension |-> indexDimension,
     indexValue |-> indexValue, lod |-> lod, xys |-> xys]
\* requests of the data set, and requests that name another data set or
\* another parameter
StandaloneRequests ==
    {StandaloneRequest("cube", "p", d, iv, lod, xys) :
        d \in {"by_z", "by_x"}, iv \in StandaloneIndexValues, lod \in 0..MaxLod,
        xys \in StandaloneXys}
    \cup {StandaloneRequest(id[1], id[2], d, iv, 0, <<xy>>) :
            id \in {<<"none", "p">>, <<"cube", "q">>}, d \in {"by_z", "by_x"},
            iv \in StandaloneIndexValues, xy \in StandaloneXY}

\* await tile_server.handle_tile_request_standalone(socketio, sender_id, request_data)
HandleStandalone(request_data) ==
    /\ call.status = "none"
    /\ \E r \in {handle_tile_request_standalone(datasets, files, request_data)} :
          /\ call' = [status |-> r.status, request |-> request_data]
          /\ opened' = r.opened
          /\ emitted' = r.emitted
    /\ UNCHANGED <<proxyVars, tileVars, widgetVars, datasets, generation_cache, files,
                   extraVars>>

\* the request is over
StandaloneDone ==
    /\ call.status # "none"
    /\ call' = NoCall /\ opened' = <<>> /\ emitted' = <<>>
    /\ UNCHANGED <<proxyVars, tileVars, widgetVars, datasets, generation_cache, files,
                   extraVars>>

Convert == \E d \in StandaloneAxes, iv \in StandaloneIndexValues : ConvertTiles(d, iv)
Request == \E request_data \in StandaloneRequests : HandleStandalone(request_data)

NextStandalone == Convert \/ Request \/ StandaloneDone

SpecStandalone == InitStandalone /\ [][NextStandalone]_vars

(***************************************************************************)
(* Properties of the block file.                                           *)
(***************************************************************************)
\* the tile grid of an axis at a lod: gw and gh
Gw(ds, index_dimension, lod) == TilesAlong(WidthOf(ds, index_dimension), lod)
Gh(ds, index_dimension, lod) == TilesAlong(HeightOf(ds, index_dimension), lod)
\* the tiles of lods below lod: the sum over L' < lod of gw(L') * gh(L')
TilesBelow(ds, index_dimension, lod) ==
    SumSeq([l \in 1..lod |-> Gw(ds, index_dimension, l - 1) * Gh(ds, index_dimension, l - 1)])
\* the in-grid tiles of an axis and a slice index
GridTiles(ds, index_dimension, index_value) ==
    UNION {{Tile(index_dimension, index_value, lod, xy[1], xy[2]) :
               xy \in (0..(Gw(ds, index_dimension, lod) - 1))
                          \X (0..(Gh(ds, index_dimension, lod) - 1))} :
           lod \in 0..ds.max_lod}
\* the tiles the builder writes for an axis and a slice index, in order
BuiltTiles(ds, index_dimension, index_value) ==
    get_tiles_in_range(ds, index_dimension, <<index_value>>, LodRange(ds))

\* C14: for every axis and slice index, the k-th tile (L, x, y) the builder
\* enumerates is the one the reader's index formula places at header
\* position k: the tiles of the lods below L, plus y * gw(L) + x; the
\* enumeration lists every in-grid tile once, and N_total of the reader is
\* the number of tiles written; the header of a built file holds N_total
\* sizes, those of the blobs in that order, and the body holds nothing else.
C14_BuildMatchesIndex ==
    \A index_dimension \in Dimension, index_value \in StandaloneIndexValues :
        LET ds == datasets["cube"]
            tiles == BuiltTiles(ds, index_dimension, index_value)
            blockfile == BlockFile(ds, "p", index_dimension, index_value)
        IN /\ Len(tiles) = blockfile.total_tiles
           /\ blockfile.total_tiles = TilesBelow(ds, index_dimension, ds.max_lod + 1)
           /\ {tiles[k] : k \in DOMAIN tiles} = GridTiles(ds, index_dimension, index_value)
           /\ Cardinality(GridTiles(ds, index_dimension, index_value)) = Len(tiles)
           /\ \A k \in DOMAIN tiles :
                 /\ k - 1 = TilesBelow(ds, index_dimension, tiles[k].lod)
                               + tiles[k].y * Gw(ds, index_dimension, tiles[k].lod)
                               + tiles[k].x
                 /\ k - 1 = BlockIndex(blockfile,
                                       BlockIndexOffset(blockfile, tiles[k].lod), tiles[k])
           /\ blockfile.path \in DOMAIN files =>
                 /\ \A k \in DOMAIN tiles :
                       load_header(blockfile, files[blockfile.path])[k]
                           = Len(generation_cache[TileKey("cube", "p", tiles[k])])
                 /\ Len(files[blockfile.path])
                       = 4 * blockfile.total_tiles
                           + SumSeq(load_header(blockfile, files[blockfile.path]))

\* the block file of axis Z, slice 0 of the 3 x 4 x 5 data set with two lods:
\* a 3 x 2 grid at lod 0 and a 2 x 1 grid at lod 1, tile (0, 1, 1) at header
\* position 4 and tile (1, 1, 0) at position 7
C14_Witness ==
    /\ <<"cube", "p", "Z", 0>> \in DOMAIN files
    /\ datasets["cube"].x_max = 5 /\ datasets["cube"].max_lod = 1
    /\ Len(BuiltTiles(datasets["cube"], "Z", 0)) = 8
    /\ BuiltTiles(datasets["cube"], "Z", 0)[5] = Tile("Z", 0, 0, 1, 1)
    /\ BuiltTiles(datasets["cube"], "Z", 0)[8] = Tile("Z", 0, 1, 1, 0)
    /\ SubSeq(files[<<"cube", "p", "Z", 0>>], 17, 20) = <<1, 0, 0, 0>>

\* the request names a data set and a parameter of the server and a slice the
\* data set holds tiles of
Served(request_data) ==
    /\ request_data.datasetId \in DOMAIN datasets
    /\ request_data.parameter \in datasets[request_data.datasetId].all_valid_parameters
    /\ request_data.indexValue % datasets[request_data.datasetId].pre_generation_sparsity = 0
\* the tile of the k-th coordinate pair of a request
RequestTile(request_data, k) ==
    Tile(dimension_mapping[request_data.indexDimension], request_data.indexValue,
         request_data.lod, request_data.xys[k][1], request_data.xys[k][2])
\* every tile of the request lies in the grid of its lod
AllInGrid(request_data) ==
    \A k \in DOMAIN request_data.xys :
        RequestTile(request_data, k)
            \in GridTiles(datasets["cube"], dimension_mapping[request_data.indexDimension],
                          request_data.indexValue)
\* the blobs the builder stored for the tiles of a request, in the order listed
StoredBlobs(request_data) ==
    [k \in DOMAIN request_data.xys |->
        generation_cache[TileKey(request_data.datasetId, request_data.parameter,
                                 RequestTile(request_data, k))]]
\* the block file of the request
RequestPath(request_data) ==
    <<request_data.datasetId, request_data.parameter,
      dimension_mapping[request_data.indexDimension], request_data.indexValue>>

\* C15: load_header and get_tile_data of a built block file, for a non-empty
\* list of in-grid tiles of one lod, in any order and with repeats, return
\* for each tile the byte length of its stored blob and, as the bytes, the
\* stored blobs joined in the order listed.
C15_ReadReturnsStoredBlobs ==
    (call.status # "none" /\ Served(call.request) /\ call.request.xys # <<>>
        /\ RequestPath(call.request) \in DOMAIN files /\ AllInGrid(call.request)) =>
        /\ call.status = "emitted"
        /\ Len(emitted) = 1
        /\ emitted[1].dataSizes
              = [k \in DOMAIN call.request.xys |-> Len(StoredBlobs(call.request)[k])]
        /\ emitted[1].data = Concat(StoredBlobs(call.request))

\* tiles (2, 0) and (0, 0) of axis Z, not adjacent and in descending order:
\* the three bytes of the first and the byte of the second
C15_Witness ==
    /\ call.status = "emitted"
    /\ call.request.indexDimension = "by_z" /\ call.request.lod = 0
    /\ call.request.xys = <<(<<2, 0>>), <<0, 0>>>>
    /\ emitted[1].dataSizes = <<3, 1>>
    /\ emitted[1].data = <<9, 10, 11, 1>>

(***************************************************************************)
(* Properties of the standalone dispatcher.                                *)
(***************************************************************************)
\* C16: a standalone request whose data set id or parameter is unknown, or
\* whose slice index is not a multiple of the pre_generation_sparsity of the
\* data set, is rejected: no block file is opened or read and no tile_data
\* message is emitted for it.
C16_UnservedIsRejected ==
    (call.status # "none" /\ ~Served(call.request)) =>
        /\ call.status = "rejected"
        /\ opened = <<>>
        /\ emitted = <<>>

\* slice 1 of a data set of sparsity 2 is requested and rejected although
\* its block file is there
C16_Witness ==
    /\ call.status = "rejected"
    /\ call.request.datasetId = "cube" /\ call.request.parameter = "p"
    /\ call.request.indexValue = 1
    /\ datasets["cube"].pre_generation_sparsity = 2
    /\ RequestPath(call.request) \in DOMAIN files

\* C17: every tile read from a block file lies in the grid of its lod: a
\* request that names a coordinate outside the grid is answered with no tile
\* bytes at all, never with the bytes of another tile.
C17_OutOfGridRejected ==
    emitted # <<>> => AllInGrid(call.request)

(***************************************************************************)
(* Properties of the widget-mode dispatcher: failures, ids and progress.   *)
(***************************************************************************)
\* C18: a tile whose generation fails does not end the handling of the
\* message: every request of the message is answered, each reply with one
\* blob per coordinate pair, a NaN tile standing in for the failed one.
C18_FailureIsolated ==
    message.status # "none" =>
        /\ Len(sent) = Len(message.requests)
        /\ \A i \in DOMAIN sent :
              /\ sent[i].metadata = message.requests[i]
              /\ Len(sent[i].dataSizes) = Len(message.requests[i].xys)

\* the lengths of the coordinate lists of the requests of a message
XysLengths(requests) == [i \in DOMAIN requests |-> Len(requests[i].xys)]

\* C19: the requests of a message all carry the group id of its call, which
\* is above every group id given before, and request ids that rise by one
\* from request to request and are above every request id given before; the
\* progress entry of each request is seeded with (0, len(xys)) before the
\* first tile of the group is handled.
C19_FreshIds ==
    /\ \A g \in DOMAIN request_progress :
          /\ g < next_request_group_id
          /\ \A id \in DOMAIN request_progress[g] : id < next_request_id
          /\ \A h \in DOMAIN request_progress :
                g # h => DOMAIN request_progress[g] \cap DOMAIN request_progress[h] = {}
    /\ message.status # "none" =>
          /\ \A i \in DOMAIN message.requests :
                /\ message.requests[i].request_group_id = next_request_group_id - 1
                /\ message.requests[i].request_id
                      = next_request_id - Len(message.requests) + i - 1
                /\ next_request_group_id - 1 \in DOMAIN request_progress
                /\ message.requests[i].request_id
                      \in DOMAIN request_progress[next_request_group_id - 1]
                /\ request_progress[next_request_group_id - 1]
                                   [message.requests[i].request_id][2]
                      = Len(message.requests[i].xys)
                /\ widget_progress[i].done = 0
                /\ widget_progress[i].total
                      = SumSeq(SubSeq(XysLengths(message.requests), 1, i))
          /\ \A g \in DOMAIN request_progress :
                g # next_request_group_id - 1 =>
                    \A id \in DOMAIN request_progress[g] :
                        id < next_request_id - Len(message.requests)
          /\ message.requests # <<>> =>
                DOMAIN request_progress[next_request_group_id - 1]
                    = {message.requests[i].request_id : i \in DOMAIN message.requests}

\* the second message, of two requests, after a first one of two: group 1
\* and the request ids 2 and 3
C19_Witness ==
    /\ message.status = "done"
    /\ next_request_group_id = 2 /\ next_request_id = 4
    /\ Len(message.requests) = 2
    /\ message.requests[1].request_id = 2 /\ message.requests[1].request_group_id = 1
    /\ message.requests[2].request_id = 3 /\ message.requests[2].request_group_id = 1
    /\ DOMAIN request_progress[0] = {0, 1}

\* the progress pairs of a message handled to its end: one per request at
\* its registration, then one per tile of each request, each the sums of
\* done and of total over the requests registered in the group so far
ExpectedProgress(requests) ==
    [i \in DOMAIN requests |->
        [group |-> requests[i].request_group_id, done |-> 0,
         total |-> SumSeq(SubSeq(XysLengths(requests), 1, i))]]
    \o Concat([i \in DOMAIN requests |->
                  [k \in DOMAIN requests[i].xys |->
                      [group |-> requests[i].request_group_id,
                       done |-> SumSeq(SubSeq(XysLengths(requests), 1, i - 1)) + k,
                       total |-> SumSeq(XysLengths(requests))]]])

ProxyIdle ==
    /\ data_source \in {s \in TileSources : s.kind = "ndarray" /\ s.values = IdentityArray(TileShape)}
    /\ chunk_cache = <<>>
    /\ backing_reads = <<>>
    /\ result = NoResult






PatchRestIdle == ProxyIdle /\ TileIdle /\ WidgetIdle /\ StandaloneIdle /\ LimitIdle /\ CacheIdle /\ WorkerIdle /\ KeyIdle /\ LodIdle /\ SliderIdle
LimitRestIdle == ProxyIdle /\ TileIdle /\ WidgetIdle /\ StandaloneIdle /\ PatchIdle /\ CacheIdle /\ WorkerIdle /\ KeyIdle /\ LodIdle /\ SliderIdle
CacheRestIdle == ProxyIdle /\ TileIdle /\ WidgetIdle /\ StandaloneIdle /\ PatchIdle /\ LimitIdle /\ WorkerIdle /\ KeyIdle /\ LodIdle /\ SliderIdle
WorkerRestIdle == ProxyIdle /\ TileIdle /\ WidgetIdle /\ StandaloneIdle /\ PatchIdle /\ LimitIdle /\ CacheIdle /\ KeyIdle /\ LodIdle /\ SliderIdle
KeyRestIdle == ProxyIdle /\ TileIdle /\ WidgetIdle /\ StandaloneIdle /\ PatchIdle /\ LimitIdle /\ CacheIdle /\ WorkerIdle /\ LodIdle /\ SliderIdle
LodRestIdle == ProxyIdle /\ TileIdle /\ WidgetIdle /\ StandaloneIdle /\ PatchIdle /\ LimitIdle /\ CacheIdle /\ WorkerIdle /\ KeyIdle /\ SliderIdle
SliderRestIdle == ProxyIdle /\ TileIdle /\ WidgetIdle /\ StandaloneIdle /\ PatchIdle /\ LimitIdle /\ CacheIdle /\ WorkerIdle /\ KeyIdle /\ LodIdle

(***************************************************************************)
(* patch_dataset: the dimension order and the latitude order of a source.  *)
(***************************************************************************)
LONGITUDE_DIMENSION_NAMES == {"longitude", "lon"}
LATITUDE_DIMENSION_NAMES == {"latitude", "lat"}

\* ds.transpose(a, b, c): the dimensions in the new order, the coordinates
\* of each dimension as they were
transpose(source, order) == [source EXCEPT !.dims = order]

RECURSIVE SortDescending(_)
\* the values of a coordinate in descending order
SortDescending(values) ==
    IF values = <<>> THEN <<>>
    ELSE LET i == CHOOSE i \in DOMAIN values : \A j \in DOMAIN values : values[j] <= values[i]
         IN <<values[i]>>
                \o SortDescending([k \in 1..(Len(values) - 1) |->
                                      IF k < i THEN values[k] ELSE values[k + 1]])
\* ds.sortby(name, ascending = False)
sortby(source, name) == [source EXCEPT !.coords[name] = SortDescending(@)]

\* patch_dataset, the flip of the latitude; dims is the list taken from the
\* source before the transpose
FlipLatitude(source, dims) ==
    IF dims[2] \in LATITUDE_DIMENSION_NAMES
    THEN IF source.coords[dims[2]][1] < source.coords[dims[2]][Len(source.coords[dims[2]])]
         THEN sortby(source, dims[2])
         ELSE source
    ELSE source

\* patch_dataset
patch_dataset(source) ==
    IF source.kind = "ndarray" THEN source
    ELSE FlipLatitude(IF source.dims[2] \in LONGITUDE_DIMENSION_NAMES
                         /\ source.dims[3] \in LATITUDE_DIMENSION_NAMES
                      THEN transpose(source, <<source.dims[1], source.dims[3], source.dims[2]>>)
                      ELSE source,
                      source.dims)

\* the names of the second and the third dimension, and the values of a
\* latitude coordinate: one value, ascending, descending, unordered
PatchNames == {"lat", "latitude", "lon", "longitude", "y"}
PatchLatitudes ==
    {<<1>>, <<1, 2>>, <<2, 1>>, <<1, 2, 3>>, <<3, 2, 1>>, <<2, 1, 3>>, <<1, 3, 2>>, <<2, 2>>}
\* a labelled source with dimensions (time, a, b); the other coordinates ascend
LabelledSource(a, b, latitude) ==
    [status |-> "given", kind |-> "xarray", dims |-> <<"time", a, b>>,
     coords |-> [d \in {"time", a, b} |->
                    IF d \in LATITUDE_DIMENSION_NAMES THEN latitude ELSE <<1, 2>>]]
PatchSources ==
    {LabelledSource(a, b, latitude) :
        a \in PatchNames, b \in PatchNames, latitude \in PatchLatitudes}
    \cup {[status |-> "given", kind |-> "ndarray", dims |-> <<>>, coords |-> <<>>]}

\* a source is handed to startup_widget or open_dataset
InitPatch ==
    /\ PatchRestIdle
    /\ patch_input \in {source \in PatchSources :
                           source.kind = "ndarray" \/ source.dims[2] # source.dims[3]}
    /\ patch_output = NoPatch

\* self.data_source = patch_dataset(data_source)
PatchDataset ==
    /\ patch_output.status = "none"
    /\ patch_output' = patch_dataset(patch_input)
    /\ UNCHANGED <<patchRest, patch_input>>

NextPatch == PatchDataset

SpecPatch == InitPatch /\ [][NextPatch]_vars

LimitTraits == {"xlim", "ylim", "zlim"}
\* _valid_xlim validates against axis 2, _valid_ylim 1, _valid_zlim 0
LimitAxis(trait) == CASE trait = "xlim" -> 2 [] trait = "ylim" -> 1 [] trait = "zlim" -> 0
\* self._data_source.shape
LimitShape == <<1, 1, 1>>

\* validate_boundary: the proposal returned, or a TraitError raised
validate_boundary(proposal, axis, wrapping) ==
    LET max_value == IF wrapping THEN 2 * LimitShape[axis + 1] ELSE LimitShape[axis + 1]
    IN IF proposal < 0 \/ proposal > max_value
       THEN [raised |-> TRUE, value |-> proposal]
       ELSE [raised |-> FALSE, value |-> proposal]

\* _valid_xlim, _valid_ylim, _valid_zlim: the pair of the validated
\* boundaries, or the TraitError of a boundary
valid_lim(trait, value, wrapping) ==
    LET lower == validate_boundary(value[1], LimitAxis(trait), wrapping)
        upper == validate_boundary(value[2], LimitAxis(trait), wrapping)
    IN [raised |-> lower.raised \/ upper.raised, value |-> <<lower.value, upper.value>>]

\* the boundaries somebody may propose for an axis
Proposals(trait) == (0 - 1)..(2 * LimitShape[LimitAxis(trait) + 1] + 1)

\* the widget exists; at most one of xwrap, ywrap and zwrap is set
InitLimits ==
    /\ LimitRestIdle
    /\ limits = [trait \in LimitTraits |-> <<0 - 1, 0 - 1>>]
    /\ wrap \in {w \in [LimitTraits -> BOOLEAN] :
                    \A a \in LimitTraits, b \in LimitTraits : w[a] /\ w[b] => a = b}
    /\ assignment = NoAssignment

\* widget.xlim = value (or ylim, zlim): traitlets runs the validator and
\* stores what it returns; a TraitError leaves the trait as it was
AssignLimit ==
    \E trait \in LimitTraits :
        \E lower \in Proposals(trait), upper \in Proposals(trait) :
            \E validated \in {valid_lim(trait, <<lower, upper>>, wrap[trait])} :
                /\ limits' = IF validated.raised THEN limits
                             ELSE [limits EXCEPT ![trait] = validated.value]
                /\ assignment' = [status |-> "assigned", trait |-> trait,
                                  value |-> <<lower, upper>>,
                                  raised |-> validated.raised,
                                  kept |-> limits'[trait] = limits[trait]]
                /\ UNCHANGED <<limitRest, wrap>>

NextLimits == AssignLimit

SpecLimits == InitLimits /\ [][NextLimits]_vars

\* the largest boundary of an axis: N, doubled when the axis wraps
LimitMax(trait) ==
    IF wrap[trait] THEN 2 * LimitShape[LimitAxis(trait) + 1] ELSE LimitShape[LimitAxis(trait) + 1]

\* C22: an assignment to xlim, ylim or zlim is accepted only with
\* 0 <= lower <= upper <= N (N doubled when the axis wraps) and then stored;
\* any other proposal raises a TraitError and the limit keeps its value.
C22_AcceptedLimitsOrdered ==
    assignment.status = "assigned" =>
        IF /\ 0 <= assignment.value[1]
           /\ assignment.value[1] <= assignment.value[2]
           /\ assignment.value[2] <= LimitMax(assignment.trait)
        THEN ~assignment.raised /\ limits[assignment.trait] = assignment.value
        ELSE assignment.raised /\ assignment.kept

(***************************************************************************)
(* TileGenerationCache: in memory and on disk.                             *)
(***************************************************************************)
UNCOMPRESSED_SUFFIX == "_uncompressed"

\* TileDiskStorage.get_tile_path with the suffix of the intermediate file
get_tile_path(dataset_id, parameter, t, suffix) ==
    <<dataset_id, parameter, t.index_dimension, <<t.index_value, t.lod, t.x, t.y>>, suffix>>
\* the key of the in-memory cache: tile.get_hash_key() + suffix
MemoryKey(dataset_id, parameter, t, suffix) == <<TileKey(dataset_id, parameter, t), suffix>>

\* what an operation answers: a value, or an exception
Answer(value) == [raised |-> FALSE, value |-> value]
Throw(error) == [raised |-> TRUE, value |-> error]

\* TileGenerationCache.tile_exists
tile_exists(save_on_disk, t) ==
    IF save_on_disk
    THEN Answer(get_tile_path("cube", "p", t, "") \in DOMAIN cache_disk)
    ELSE Answer(MemoryKey("cube", "p", t, "") \in DOMAIN cache_memory)

\* TileGenerationCache.get_data and get_uncompressed_data
get_data(save_on_disk, t, suffix) ==
    IF save_on_disk
    THEN IF get_tile_path("cube", "p", t, suffix) \in DOMAIN cache_disk
         THEN Answer(cache_disk[get_tile_path("cube", "p", t, suffix)])
         ELSE Throw("FileNotFoundError")
    ELSE IF MemoryKey("cube", "p", t, suffix) \in DOMAIN cache_memory
         THEN Answer(cache_memory[MemoryKey("cube", "p", t, suffix)])
         ELSE Throw("KeyError")

\* the tiles and the bytes the caches are used with
CacheTiles == {Tile("Z", 0, 0, 0, 0), Tile("Z", 0, 0, 1, 0)}
CacheData == {<<1>>, <<2>>}
CacheSuffixes == {"", UNCOMPRESSED_SUFFIX}

InitCache ==
    /\ CacheRestIdle
    /\ cache_memory = <<>>
    /\ cache_disk = <<>>
    /\ cache_puts = <<>>
    /\ observation = NoObservation

\* put_data and put_uncompressed_data, on either cache
CachePut ==
    \E t \in CacheTiles, data \in CacheData, suffix \in CacheSuffixes :
        /\ cache_memory' = (MemoryKey("cube", "p", t, suffix) :> data) @@ cache_memory
        /\ cache_disk' = (get_tile_path("cube", "p", t, suffix) :> data) @@ cache_disk
        /\ cache_puts' = (<<t, suffix>> :> data) @@ cache_puts
        /\ observation' = [status |-> "done", op |-> "put", tile |-> t, suffix |-> suffix,
                           memory |-> Answer(<<>>), disk |-> Answer(<<>>)]
        /\ UNCHANGED cacheRest

\* get_data and get_uncompressed_data, on either cache
CacheGet ==
    \E t \in CacheTiles, suffix \in CacheSuffixes :
        /\ observation' = [status |-> "done", op |-> "get", tile |-> t, suffix |-> suffix,
                           memory |-> get_data(FALSE, t, suffix),
                           disk |-> get_data(TRUE, t, suffix)]
        /\ UNCHANGED <<cacheRest, cache_memory, cache_disk, cache_puts>>

\* tile_exists, on either cache
CacheTileExists ==
    \E t \in CacheTiles :
        /\ observation' = [status |-> "done", op |-> "tile_exists", tile |-> t, suffix |-> "",
                           memory |-> tile_exists(FALSE, t), disk |-> tile_exists(TRUE, t)]
        /\ UNCHANGED <<cacheRest, cache_memory, cache_disk, cache_puts>>

\* clear: self.cache.clear() in memory; on disk self.tile_disk_cache.clear(),
\* a method TileDiskStorage does not have, so the call raises and no file
\* is removed
CacheClear ==
    /\ cache_memory' = <<>>
    /\ cache_disk' = cache_disk
    /\ cache_puts' = <<>>
    /\ observation' = [status |-> "done", op |-> "clear", tile |-> <<>>, suffix |-> "",
                       memory |-> Answer(<<>>), disk |-> Throw("AttributeError")]
    /\ UNCHANGED cacheRest

NextCache == CachePut \/ CacheGet \/ CacheTileExists \/ CacheClear

SpecCache == InitCache /\ [][NextCache]_vars

\* what the claim expects of an operation on a cache
Expected(o) ==
    CASE o.op = "get" -> IF <<o.tile, o.suffix>> \in DOMAIN cache_puts
                         THEN Answer(cache_puts[<<o.tile, o.suffix>>])
                         ELSE [raised |-> TRUE]
      [] o.op = "tile_exists" -> Answer(<<o.tile, "">> \in DOMAIN cache_puts)
      [] OTHER -> Answer(<<>>)
Agrees(answer, expected) ==
    /\ answer.raised = expected.raised
    /\ ~answer.raised => answer.value = expected.value

\* C23: the cache in memory and the cache on disk answer every sequence of
\* put_data, get_data, tile_exists, put_uncompressed_data,
\* get_uncompressed_data and clear alike: a get returns the bytes put last,
\* tile_exists holds exactly after put_data, and after clear no tile exists.
C23_CachesEquivalent ==
    observation.status = "done" =>
        /\ Agrees(observation.memory, Expected(observation))
        /\ Agrees(observation.disk, Expected(observation))
        /\ observation.op = "clear" =>
              \A t \in CacheTiles :
                  /\ tile_exists(FALSE, t) = Answer(FALSE)
                  /\ tile_exists(TRUE, t) = Answer(FALSE)

(***************************************************************************)
(* Two workers on one dictionary: DataSourceProxy.get_chunk on chunk_cache *)
(* and the miss path of handle_tile_request_widget on TileMemoryCache.     *)
(* Neither path takes a lock; a worker may be preempted between any two    *)
(* of its statements.                                                      *)
(***************************************************************************)
Workers == {1, 2}
WorkerTargets == {"get_chunk", "handle_tile_request_widget"}
\* chunk keys, or the hash keys of tiles
WorkerKeys == {"a", "b"}

InitWorkers ==
    /\ WorkerRestIdle
    /\ target \in WorkerTargets
    /\ workers \in {[w \in Workers |-> [pc |-> "test", key |-> IF w = 1 THEN k1 ELSE k2,
                                        value |-> <<>>]] :
                       k1 \in WorkerKeys, k2 \in WorkerKeys}
    /\ shared = <<>>
    /\ loads = [k \in WorkerKeys |-> 0]
    /\ stores = [k \in WorkerKeys |-> 0]

\* if chunk_key not in self.chunk_cache /
\* tile_cached = self.tile_memory_cache.tile_exists(t)
TestKey(w) ==
    /\ workers[w].pc = "test"
    /\ workers' = [workers EXCEPT ![w].pc = IF workers[w].key \in DOMAIN shared
                                            THEN "hit" ELSE "load"]
    /\ UNCHANGED <<workerRest, target, shared, loads, stores>>

\* self.data_source[slices].values / t.generate_from_data(...)
LoadValue(w) ==
    /\ workers[w].pc = "load"
    /\ workers' = [workers EXCEPT ![w].pc = "store",
                                  ![w].value = [value |-> workers[w].key, by |-> w]]
    /\ loads' = [loads EXCEPT ![workers[w].key] = @ + 1]
    /\ UNCHANGED <<workerRest, target, shared, stores>>

\* self.chunk_cache[chunk_key] = ... / self.tile_memory_cache.put_data(t, d)
StoreValue(w) ==
    /\ workers[w].pc = "store"
    /\ shared' = (workers[w].key :> workers[w].value) @@ shared
    /\ stores' = [stores EXCEPT ![workers[w].key] = @ + 1]
    /\ workers' = [workers EXCEPT ![w].pc = IF target = "get_chunk" THEN "hit" ELSE "done"]
    /\ UNCHANGED <<workerRest, target, loads>>

\* return self.chunk_cache[chunk_key] / d = self.tile_memory_cache.get_data(t)
ReadValue(w) ==
    /\ workers[w].pc = "hit"
    /\ workers' = [workers EXCEPT ![w].pc = "done", ![w].value = shared[workers[w].key]]
    /\ UNCHANGED <<workerRest, target, shared, loads, stores>>

NextWorkers ==
    \E w \in Workers : TestKey(w) \/ LoadValue(w) \/ StoreValue(w) \/ ReadValue(w)

SpecWorkers == InitWorkers /\ [][NextWorkers]_vars

\* C24: when two workers touch one key concurrently the insertion is atomic:
\* under every interleaving the value of a key is loaded or generated once
\* and stored once, so the second worker never replaces what the first
\* stored.
C24_InsertedOnce ==
    \A k \in WorkerKeys : loads[k] <= 1 /\ stores[k] <= 1

(***************************************************************************)
(* Tile.get_hash_key as the string it is: strings are sequences of         *)
(* characters.                                                             *)
(***************************************************************************)
Digit(d) == <<"0", "1", "2", "3", "4", "5", "6", "7", "8", "9">>[d + 1]

RECURSIVE str(_)
\* str(n) of an int
str(n) ==
    IF n < 0 THEN <<"-">> \o str(0 - n)
    ELSE IF n < 10 THEN <<Digit(n)>>
    ELSE str(n \div 10) \o <<Digit(n % 10)>>

RECURSIVE join(_, _)
\* separator.join(parts)
join(separator, parts) ==
    IF parts = <<>> THEN <<>>
    ELSE IF Len(parts) = 1 THEN parts[1]
    ELSE parts[1] \o separator \o join(separator, Tail(parts))

\* Tile.get_hash_key
get_hash_key_str(t) ==
    join(<<"-">>, <<t.dataset_id, t.parameter, str(DimensionValue(t.index_dimension)),
                    str(t.index_value), str(t.lod), str(t.x), str(t.y)>>)

\* data set ids and parameter names, some with "-"
KeyNames == {<<"a">>, <<"a", "-", "b">>, <<"b">>, <<"b", "-", "a">>}
KeyIdentities ==
    [dataset_id : KeyNames, parameter : KeyNames, index_dimension : {"Z", "X"},
     index_value : {0 - 1, 0, 11}, lod : {0}, x : {0, 1}, y : {0}]

InitKeys ==
    /\ KeyRestIdle
    /\ identities \in KeyIdentities \X KeyIdentities
    /\ keyed = <<>>

\* TileMemoryCache.put_data for the one identity, then for the other
PutBoth ==
    /\ keyed = <<>>
    /\ keyed' = (get_hash_key_str(identities[2]) :> identities[2])
                    @@ (get_hash_key_str(identities[1]) :> identities[1])
    /\ UNCHANGED <<keyRest, identities>>

NextKeys == PutBoth

SpecKeys == InitKeys /\ [][NextKeys]_vars

\* C25: get_hash_key is injective on the identity (dataset_id, parameter,
\* axis, slice index, lod, x, y), names with "-" included: two distinct
\* identities never have one key, so each keeps its own cache entry.
C25_HashKeyInjective ==
    (keyed # <<>> /\ identities[1] # identities[2]) =>
        /\ get_hash_key_str(identities[1]) # get_hash_key_str(identities[2])
        /\ keyed[get_hash_key_str(identities[1])] = identities[1]

(***************************************************************************)
(* calculate_max_lod and Dataset.open: the largest level of detail.        *)
(***************************************************************************)
MaxLodTileSize == 4   \* tile sizes 1..MaxLodTileSize
MaxLodDim == 5        \* cube dimensions 1..MaxLodDim

\* 2^k >= m / tile_size, for any integer k
ReachesRatio(k, tile_size, m) ==
    IF k >= 0 THEN tile_size * Pow2(k) >= m ELSE tile_size >= m * Pow2(0 - k)
\* math.ceil(-math.log2(tile_size / m)): the least k with 2^k >= m / tile_size
CeilNegLog2(tile_size, m) ==
    CHOOSE k \in (0 - tile_size)..m :
        ReachesRatio(k, tile_size, m) /\ ~ReachesRatio(k - 1, tile_size, m)
\* math.floor(math.log2(n)): the greatest k with 2^k <= n
FloorLog2(n) == CHOOSE k \in 0..n : Pow2(k) <= n /\ n < Pow2(k + 1)

Max3(dims) == Max(dims[1], Max(dims[2], dims[3]))
Min3(dims) == Min(dims[1], Min(dims[2], dims[3]))

\* calculate_max_lod; Dataset.open computes the same from z_max, y_max, x_max
calculate_max_lod(tile_size, dims) ==
    LET desired_max_lod == CeilNegLog2(tile_size, Max3(dims))
        largest_lod_possible == FloorLog2(Min3(dims))
    IN Min(desired_max_lod, largest_lod_possible)

InitLod ==
    /\ LodRestIdle
    /\ lod_input \in [status : {"given"}, tile_size : 1..MaxLodTileSize,
                      dims : (1..MaxLodDim) \X (1..MaxLodDim) \X (1..MaxLodDim)]
    /\ lod_output = NoLod

\* the widget publishes calculate_max_lod(TILE_SIZE, shape); Dataset.open
\* sets self.max_lod, and generate_block_indices loops over
\* range(0, self.max_lod + 1)
CalculateMaxLod ==
    /\ lod_output = NoLod
    /\ \E max_lod \in {calculate_max_lod(lod_input.tile_size, lod_input.dims)} :
          lod_output' = [status |-> "done", max_lod |-> max_lod, lods |-> 0..max_lod]
    /\ UNCHANGED <<lodRest, lod_input>>

NextLod == CalculateMaxLod

SpecLod == InitLod /\ [][NextLod]_vars

\* C26: for every cube with all dimensions >= 1 and every tile size T,
\* max_lod = min(ceil(-log2(T / max dim)), floor(log2(min dim))) and
\* max_lod >= 0, so the LoD range 0..max_lod is not empty and holds LoD 0.
C26_MaxLodNonNegative ==
    lod_output.status = "done" =>
        /\ lod_output.max_lod
              = Min(CeilNegLog2(lod_input.tile_size, Max3(lod_input.dims)),
                    FloorLog2(Min3(lod_input.dims)))
        /\ lod_output.max_lod >= 0
        /\ 0 \in lod_output.lods

(***************************************************************************)
(* Properties of DataSourceProxy, continued: the copy slices.              *)
(***************************************************************************)
\* the three ranges of a request after validate_slice
ClampedRanges(arg) == [d \in 1..3 |-> validate_slice(arg[d], d)]
\* the chunks __getitem__ visits for a request
AffectedChunks(arg) ==
    find_affected_chunks(ClampedRanges(arg)[3], ClampedRanges(arg)[2], ClampedRanges(arg)[1])
\* the copy slices of the k-th of them
CopySlices(arg, k) ==
    get_chunk_slices_for_request(AffectedChunks(arg)[k][3], AffectedChunks(arg)[k][2],
                                 AffectedChunks(arg)[k][1], ClampedRanges(arg)[3],
                                 ClampedRanges(arg)[2], ClampedRanges(arg)[1])
\* the extents of the k-th chunk
ChunkExtents(arg, k) ==
    get_chunk_slices(AffectedChunks(arg)[k][3], AffectedChunks(arg)[k][2],
                     AffectedChunks(arg)[k][1])
\* the cells of the output array
OutputCells(arg) ==
    (0..(SliceLen(ClampedRanges(arg)[1]) - 1)) \X (0..(SliceLen(ClampedRanges(arg)[2]) - 1))
        \X (0..(SliceLen(ClampedRanges(arg)[3]) - 1))

\* the components of a request on an axis of length n: an index, or a range
\* whose ends are inside the array or MaxOver outside of it
CopyComponents(n) ==
    {Idx(i) : i \in 0..(n - 1)}
        \cup {Slc(p[1], p[2]) :
                p \in {q \in ({0 - MaxOver, n + MaxOver} \cup 0..n)
                                \X ({0 - MaxOver, n + MaxOver} \cup 0..n) : q[1] < q[2]}}
CopyRequests == CopyComponents(Nz) \X CopyComponents(Ny) \X CopyComponents(Nx)

\* a fresh chunked proxy is asked for one such window
CopyRead == chunk_cache = <<>> /\ \E arg \in CopyRequests : GetItem(arg)

NextProxyCopy == CopyRead \/ ProxyDone

SpecProxyCopy == InitProxyClamp /\ [][NextProxyCopy]_vars

\* C27: for a chunked proxy request whose clamped ranges are not empty, the
\* source and the target slices of every affected chunk have the same
\* non-empty shape, the source lies in the chunk and the target in the
\* output, and the targets are pairwise disjoint and cover the output:
\* every output cell is written exactly once.
C27_CopySlicesTileOutput ==
    (/\ result.status # "none"
     /\ cache_chunks
     /\ \A d \in 1..3 : SliceLen(ClampedRanges(result.arg)[d]) > 0) =>
        /\ \A k \in DOMAIN AffectedChunks(result.arg) : \A d \in 1..3 :
              /\ SliceLen(CopySlices(result.arg, k).source[d]) > 0
              /\ SliceLen(CopySlices(result.arg, k).source[d])
                    = SliceLen(CopySlices(result.arg, k).target[d])
              /\ 0 <= CopySlices(result.arg, k).source[d].start
              /\ CopySlices(result.arg, k).source[d].stop
                    <= SliceLen(ChunkExtents(result.arg, k)[d])
              /\ 0 <= CopySlices(result.arg, k).target[d].start
              /\ CopySlices(result.arg, k).target[d].stop
                    <= SliceLen(ClampedRanges(result.arg)[d])
        /\ \A j \in DOMAIN AffectedChunks(result.arg), k \in DOMAIN AffectedChunks(result.arg) :
              j # k => Box(CopySlices(result.arg, j).target)
                           \cap Box(CopySlices(result.arg, k).target) = {}
        /\ UNION {Box(CopySlices(result.arg, k).target) :
                     k \in DOMAIN AffectedChunks(result.arg)} = OutputCells(result.arg)
        /\ result.status = "ok"
        /\ \A i \in DOMAIN result.writes : result.writes[i] = 1

\* a request that leaves the array was clamped and copied from several chunks
C27_Witness ==
    /\ result.status = "ok"
    /\ cache_chunks
    /\ \E d \in 1..3 : ClampedRanges(result.arg)[d] # Named(result.arg[d])
    /\ \A d \in 1..3 : SliceLen(ClampedRanges(result.arg)[d]) > 0
    /\ Len(AffectedChunks(result.arg)) > 1

(***************************************************************************)
(* Properties of the widget-mode dispatcher: a message handled to its end. *)
(***************************************************************************)
\* C28: a message with at least one request, none of whose tiles fails to
\* generate, is handled to its end: one reply per request, in the order of
\* the requests, each with one size per tile; and the last progress pair of
\* the group is (N, N) with N the sum of len(xys) over the requests.
C28_HandledToEnd ==
    (message.status = "done" /\ message.requests # <<>>) =>
        /\ Len(sent) = Len(message.requests)
        /\ \A i \in DOMAIN sent :
              /\ sent[i].response_type = "tile_data"
              /\ sent[i].metadata = message.requests[i]
              /\ Len(sent[i].dataSizes) = Len(message.requests[i].xys)
        /\ widget_progress # <<>>
        /\ widget_progress[Len(widget_progress)]
              = [group |-> message.requests[1].request_group_id,
                 done |-> SumSeq(XysLengths(message.requests)),
                 total |-> SumSeq(XysLengths(message.requests))]

\* the first message, of a request of two tiles and a request of one,
\* answered by two replies, the progress ending at (3, 3)
C28_Witness ==
    /\ message.status = "done"
    /\ next_request_group_id = 1
    /\ XysLengths(message.requests) = <<2, 1>>
    /\ Len(sent) = 2
    /\ Len(sent[1].dataSizes) = 2 /\ Len(sent[2].dataSizes) = 1
    /\ widget_progress[Len(widget_progress)].done = 3

(***************************************************************************)
(* Sliders: linking the sliders to the limits of the cube widget.          *)
(***************************************************************************)
\* self.link_tries_left = 5
link_tries == 5
\* Timer(1.5, ...): the timeout in tenths of a second
link_timeout == 15

\* the attempt that links nothing and starts no timer when the widget is
\* not initialised
Mut_try_to_link_sliders_to_cube_widget(sl) ==
    IF \E trait \in LimitTraits : limits[trait][1] < 0
    THEN [sl EXCEPT !.link_tries_left = @ - 1, !.failed = @ + 1,
                    !.status = IF sl.link_tries_left - 1 = 0 THEN "error" ELSE "waiting"]
    ELSE [sl EXCEPT !.status = "linked"]
\* Sliders.try_to_link_sliders_to_cube_widget; timer is the pending Timer,
\* timers the timeouts of the timers started so far, failed the attempts
\* that found a limit below 0
try_to_link_sliders_to_cube_widget(sl) ==
    IF \E trait \in LimitTraits : limits[trait][1] < 0
    THEN IF sl.link_tries_left - 1 = 0
         THEN [sl EXCEPT !.link_tries_left = @ - 1, !.failed = @ + 1, !.status = "error"]
         ELSE [sl EXCEPT !.link_tries_left = @ - 1, !.failed = @ + 1,
                         !.status = "waiting", !.timer = TRUE,
                         !.timers = Append(@, link_timeout)]
    ELSE [sl EXCEPT !.status = "linked"]

\* a cube widget whose limits the front end has not pushed yet, and Sliders
\* about to be constructed for it
InitSliders ==
    /\ SliderRestIdle
    /\ slider = [status |-> "new", link_tries_left |-> 0, timer |-> FALSE,
                 timers |-> <<>>, failed |-> 0]

\* Sliders.__init__: link_tries_left = 5, then the first attempt
Construct ==
    /\ slider.status = "new"
    /\ slider' = try_to_link_sliders_to_cube_widget(
                     [slider EXCEPT !.link_tries_left = link_tries])
    /\ UNCHANGED sliderRest

\* Timer._job: the sleep is over and the callback makes the next attempt
TimerFires ==
    /\ slider.timer
    /\ slider' = try_to_link_sliders_to_cube_widget([slider EXCEPT !.timer = FALSE])
    /\ UNCHANGED sliderRest

\* the front end pushes the bounds of one axis
PushLimit ==
    \E trait \in LimitTraits :
        \E lower \in 0..LimitShape[LimitAxis(trait) + 1],
           upper \in 0..LimitShape[LimitAxis(trait) + 1] :
            \E validated \in {valid_lim(trait, <<lower, upper>>, wrap[trait])} :
                /\ ~validated.raised
                /\ limits' = [limits EXCEPT ![trait] = validated.value]
                /\ UNCHANGED <<limitRest, wrap, assignment>>

NextSliders == Construct \/ TimerFires \/ PushLimit

SpecSliders == InitSliders /\ [][NextSliders]_vars

\* the event loop runs a callback whose sleep is over, and __init__ runs to
\* its end; the front end need not push anything
SpecSlidersFair == SpecSliders /\ WF_vars(Construct) /\ WF_vars(TimerFires)

\* the safety part of C29
LinkingSafe ==
    /\ slider.status = "linked" => \A trait \in LimitTraits : limits[trait][1] >= 0
    /\ slider.failed <= link_tries
    /\ slider.failed + slider.link_tries_left = IF slider.status = "new" THEN 0 ELSE link_tries
    /\ slider.timers = [i \in 1..Min(slider.failed, link_tries - 1) |-> link_timeout]
    /\ slider.status = "error" <=> slider.failed = link_tries
    /\ slider.timer <=> slider.status = "waiting"

\* C29: the sliders are linked only when the lower bounds of xlim, ylim and
\* zlim are all >= 0; there are at most 5 attempts; each failed attempt but
\* the 5th starts one timer of 1.5 s; the 5th failed attempt raises and
\* starts none; no timer is pending once linked; and every run ends linked
\* or in the error.
C29_LinkingLoop ==
    []LinkingSafe /\ <>(slider.status \in {"linked", "error"})

\* linked at the third attempt, after two timers
C29_Witness ==
    /\ slider.status = "linked"
    /\ slider.failed = 2
    /\ slider.timers = <<link_timeout, link_timeout>>
    /\ ~slider.timer

(***************************************************************************)
(* Properties of the standalone dispatcher: a block file that is missing.  *)
(***************************************************************************)
\* C30: a request for a known data set and parameter and an aligned slice
\* emits tile_data only if its block file exists and ignore_tile_cache is
\* false; when the block file does not exist, the handler ends without an
\* error and without emitting.
C30_MissingBlockFileIsSilent ==
    (call.status # "none" /\ Served(call.request)) =>
        /\ emitted # <<>> => (RequestPath(call.request) \in DOMAIN files /\ ~ignore_tile_cache)
        /\ RequestPath(call.request) \notin DOMAIN files =>
              (call.status # "raised" /\ emitted = <<>>)

====
